---- MODULE Spec2Model ----
(***************************************************************************)
(* Time-series cache, fetcher, indicator engine, trend classifier and      *)
(* reversal detectors of the market dashboard scripts.                     *)
(*                                                                         *)
(*   find_sma_reversals   src/zz_Legacy/MarketMonitorv8.py  (SpecRev)      *)
(*   generate_dashboard's SMA-direction scan                               *)
(*                        src/python/SectorIndexv12.py      (SpecDash)     *)
(*                                                                         *)
(* Floating point values are modelled by exact integers: a comparison      *)
(* a >= b * (1 + t) with t = p/100 is written a * 100 >= b * (100 + p).    *)
(***************************************************************************)
EXTENDS Integers, Sequences, FiniteSets, TLC

\* ------------------------------------------------------------------------
\* Bounds of the model
\* ------------------------------------------------------------------------
\* longest frame handed to find_sma_reversals
MaxBars == 4
\* half the length of the V-shaped series: 50 bars down, 50 bars up
HalfBars == 50
\* longest frame handed to determine_trend_state on its own
MaxTrendRows == 2
\* longest close series scanned by generate_dashboard
MaxDashBars == 6
\* The rolling windows of generate_dashboard, scaled down so that a series
\* of MaxDashBars bars fills them and slides past them: PLOT_SMA_PERIOD
\* (50 in the source, "change this number to 20, 50, 100, 200") and the
\* tail(30) lookback of the magnitude gate.
SmaPeriod == 2
LookbackBars == 3
\* REVERSAL_PRICE_THRESHOLD, in percent
REVERSAL_PRICE_THRESHOLD == 10
\* longest series a fetch returns or a cache entry holds
MaxSeriesLen == 4
\* how often the clock is advanced in a run of the cache
MaxTicks == 3
\* The bar counts of the source, scaled down to series of MaxSeriesLen
\* bars, in the source's order 100 < 200 < 1100: the skip test of
\* generate_dashboard (len(df) < 100), MIN_BARS_REQUIRED (200) and
\* EXPECTED_MIN_BARS_5Y (1100).
DashMinBars == 2
MIN_BARS_REQUIRED == 3
EXPECTED_MIN_BARS_5Y == 4
\* the lookback of Rel_Perf_3M, pct_change(63) in the source, scaled down
RelPerfPeriods == 2
\* the window of the RSI, rolling(14) in the source, scaled down
RsiPeriod == 2
\* longest series handed to calculate_indicators on its own
MaxIndBars == 5
\* SMA_PERIOD = 20 of MarketMonitorv8.py, scaled down
SMA_PERIOD == 3
\* most bars of a series smoothed by run_analysis
MaxRollBars == 5
\* most values of a list given to find_significant_reversals
MaxListLen == 5
\* most bars of a response with gaps
MaxGapBars == 3
\* for attempt in range(1, 6): the retry budget of get_stock_data
MaxAttempts == 5
\* CACHE_HOURS = 24*7, the maximum age of an entry in hours
CACHE_HOURS == 168
\* the staleness limit of the last bar, in days
StaleDays == 7

\* A missing value of a column (pandas NaN); every real value is positive.
NaN == 0

\* values of the smoothed column: 100 <-> 101 is a move of 1 percent or
\* less, 103 is more than 1 percent away from both, 106 is more than 2
\* percent away from all
SmaVals == {100, 101, 103, 106}
\* values of the raw column, all different from every smoothed value
RawVals == {50, 60}
\* threshold, in percent (SMA_REVERSAL_THRESHOLD = 0.01 is 1)
ThresholdPcts == {0, 1, 2}
\* close prices of the dashboard scan, in thousandths: 1.040 is 4 percent
\* above 1.000, 1.100 is exactly 10 percent above it, 1.204 is more than 20
\* percent above it and is not a whole number of hundredths
ClosePrices == {1000, 1040, 1100, 1204}

VARIABLES
    \* ---- find_sma_reversals --------------------------------------------
    df,            \* the frame: a sequence of rows [raw, sma], index = date
    threshold,     \* the threshold argument, in percent
    trend,         \* 0: unknown (FLAT), 1: up (RISING), -1: down (FALLING)
    last_sma_val,  \* tracked extreme (NaN before the first valid row)
    last_date,     \* date of the tracked extreme (0 before the first valid row)
    reversals,     \* the events appended so far: [date, price, kind]
    leg_start,     \* history: the date at which the current leg began
    \* ---- find_significant_reversals (shares threshold, trend, reversals)
    data_list,     \* the values the loop has reached, index 0 first
    last_extreme_val, \* the value the moves are measured from
    \* ---- generate_dashboard: the SMA-direction scan of one symbol -------
    dash_close,    \* df['Close'] of the symbol, index = date
    dash_reversals, \* the list `reversals` built by the scan
    \* ---- the cache directory and the clock -----------------------------
    cache,         \* ticker -> content of CACHE_DIR/<ticker>.pkl
    now,           \* datetime.now(), in hours
    ticks,         \* how often the clock was advanced
    loaded,        \* outcome of the latest load_cached_data call
    saved,         \* history: the arguments of the latest save_cached_data call
    \* ---- generate_dashboard and get_stock_data -------------------------
    force_refresh, \* the argument of generate_dashboard
    pc,            \* "call", "fetch", "got", "sort", "done" or "crashed"
    cur,           \* position in Order of the ticker being handled
    attempt,       \* the loop variable of get_stock_data (0 outside the loop)
    requests,      \* history: requests.get calls made by the current call
    last_resp,     \* history: what the latest requests.get call met
    ret,           \* what the current get_stock_data call returned
    spy_df,        \* the benchmark series
    sectors_data,  \* the records collected so far
    got,           \* history: ticker -> what its get_stock_data call returned
    ind            \* the frame calculate_indicators returned last

revVars == <<df, threshold, trend, last_sma_val, last_date, reversals, leg_start,
             data_list, last_extreme_val>>
dashVars == <<dash_close, dash_reversals>>

cacheVars == <<cache, now, ticks, loaded, saved>>

pipeVars == <<force_refresh, pc, cur, attempt, requests, last_resp, ret,
              spy_df, sectors_data, got, ind>>

vars == <<revVars, dashVars, cacheVars, pipeVars>>
\* what the actions of one subsystem leave alone
notRev == <<dashVars, cacheVars, pipeVars>>
notDash == <<revVars, cacheVars, pipeVars>>
notCache == <<revVars, dashVars, pipeVars>>
notPipe == <<revVars, dashVars, ticks, loaded, saved>>

\* the detector before find_sma_reversals is called with the default threshold
RevIdle ==
    /\ df = <<>>
    /\ threshold = 1
    /\ trend = 0
    /\ last_sma_val = NaN
    /\ last_date = 0
    /\ reversals = <<>>
    /\ leg_start = 0
    /\ data_list = <<>>
    /\ last_extreme_val = NaN

\* the dashboard scan before its first bar
DashIdle ==
    /\ dash_close = <<>>
    /\ dash_reversals = <<>>

\* ------------------------------------------------------------------------
\* Series, the clock and the cache files (SectorIndexv12.py:22-28, 51-93)
\* ------------------------------------------------------------------------
\* the tickers: the benchmark and the configured sectors
Tickers == {"SPY", "XLF", "XLV"}

\* the clock at the start: noon of day 2000
Now0 == 2000 * 24 + 12
\* datetime.now().date(), as a day number
Today(t) == t \div 24

\* A series (DataFrame) is a sequence of bars [date, close, volume] in date
\* order; df.empty is Len = 0.
EmptyDf == <<>>
\* df.index.min() and df.index.max() of a non-empty series
FirstDate(d) == d[1].date
LastDate(d) == d[Len(d)].date

\* the series of n bars whose first bar is firstAge days old at Now0 and
\* whose last bar is lastAge days old
MkSeries(n, firstAge, lastAge) ==
    [i \in 1..n |->
        [date   |-> IF i = n /\ n > 1 THEN Today(Now0) - lastAge
                    ELSE Today(Now0) - firstAge + (i - 1),
         close  |-> 100 + i,
         volume |-> 1]]

\* ages of the first bar around the 4.7 year limit (1716.675 days) and of
\* the last bar around the 7 day limit
FirstAges == {1716, 1717}
LastAges == {1, 7, 8}
SeriesSet ==
    {MkSeries(n, fa, la) : n \in 0..MaxSeriesLen, fa \in FirstAges, la \in LastAges}

\* What a cache file holds.
\*   missing   no file
\*   corrupt   bytes pickle.load rejects (garbage, a truncated record)
\*   not_pair  a pickle of something that does not unpack into two items
\*   bad_time  a pair whose second item is not a datetime
\*   none_df   the pair (None, fetch_time)
\*   pair      the pair (df, fetch_time)
File(kind, d, t) == [kind |-> kind, df |-> d, fetch_time |-> t]
NoFile == File("missing", EmptyDf, 0)
DamagedKinds == {"corrupt", "not_pair", "bad_time", "none_df"}

\* pickle.dump((df, datetime.now()), f) on a file opened with 'wb'
PickleDump(d, t) == File("pair", d, t)

\* the outcome of a call: a returned series, None, or a raised exception
Returned(d) == [status |-> "hit", df |-> d]
None == [status |-> "miss", df |-> EmptyDf]
Raised == [status |-> "raised", df |-> EmptyDf]
NotCalled == [status |-> "none", df |-> EmptyDf]

\* years = (now.date() - first_date.date()).days / 365.25 ; years < 4.7
\* (365.25 = 1461/4 and 4.7 = 47/10)
SpanTooShort(d, t) == (Today(t) - FirstDate(d)) * 40 < 47 * 1461

\* (datetime.now().date() - last_date.date()).days > 7
LastBarStale(d, t) == Today(t) - LastDate(d) > StaleDays

\* age_hours > CACHE_HOURS
Expired(f, t) == t - f.fetch_time > CACHE_HOURS

\* a faulty body: the staleness test of the last bar is missing
LoadBodyNoStaleTest(f, t) ==
    IF f.kind \in {"corrupt", "not_pair", "bad_time"} THEN Raised
    ELSE IF Expired(f, t) THEN None
    ELSE IF f.kind = "none_df" \/ Len(f.df) = 0 \/ Len(f.df) < MIN_BARS_REQUIRED THEN None
    ELSE IF SpanTooShort(f.df, t) \/ Len(f.df) < EXPECTED_MIN_BARS_5Y THEN None
    ELSE Returned(f.df)

\* the body of the try block of load_cached_data
LoadBody(f, t) ==
    IF f.kind \in {"corrupt", "not_pair", "bad_time"} THEN Raised
    ELSE IF Expired(f, t) THEN None
    ELSE IF f.kind = "none_df" \/ Len(f.df) = 0 \/ Len(f.df) < MIN_BARS_REQUIRED THEN None
    ELSE IF SpanTooShort(f.df, t) \/ Len(f.df) < EXPECTED_MIN_BARS_5Y THEN None
    ELSE IF LastBarStale(f.df, t) THEN None
    ELSE Returned(f.df)

\* a faulty handler: the exception of the try block escapes
ExceptNone_Missing(r) == r

\* except Exception as e: ... return None
ExceptNone(r) == IF r.status = "raised" THEN None ELSE r

\* load_cached_data(ticker) on the file f at time t
load_cached_data(f, t) ==
    IF f.kind = "missing" THEN None ELSE ExceptNone(LoadBody(f, t))

\* a faulty save: the fetch time is not written (it stays the old entry's)
save_cached_data_KeepsTime(f, d, t) ==
    IF Len(d) = 0 THEN f ELSE PickleDump(d, f.fetch_time)

\* a faulty save: the test of df.empty is missing
save_cached_data_AlsoEmpty(f, d, t) == PickleDump(d, t)

\* save_cached_data(ticker, df) at time t: the new content of the file f
save_cached_data(f, d, t) ==
    IF Len(d) = 0 THEN f ELSE PickleDump(d, t)

\* A JSON array of the response: present or not, and its values (null = NaN)
Arr(vals) == [present |-> TRUE, vals |-> vals]
Absent == [present |-> FALSE, vals |-> <<>>]
\* no request was made yet
NoResponse ==
    [kind |-> "none", ts |-> <<>>, close |-> Absent, adjclose |-> Absent, volume |-> Absent]

\* generate_dashboard before it is called
PipeIdle ==
    /\ force_refresh = FALSE
    /\ pc = "call"
    /\ cur = 1
    /\ attempt = 0
    /\ requests = 0
    /\ last_resp = NoResponse
    /\ ret = NotCalled
    /\ spy_df = EmptyDf
    /\ sectors_data = <<>>
    /\ got = [tk \in Tickers |-> NotCalled]
    /\ ind = <<>>

\* the cache directory and clock when they are not used
CacheIdle ==
    /\ cache = [tk \in Tickers |-> NoFile]
    /\ now = Now0
    /\ ticks = 0
    /\ loaded = NotCalled
    /\ saved = NotCalled

\* ------------------------------------------------------------------------
\* The cache on its own: saves, loads, damage to the file and passing time
\* ------------------------------------------------------------------------
CacheInit == RevIdle /\ DashIdle /\ CacheIdle /\ PipeIdle

\* the ticker whose file the cache runs use
CacheTicker == "SPY"

\* save_cached_data(CacheTicker, d)
CacheSave ==
    /\ \E d \in SeriesSet :
          /\ cache' = [cache EXCEPT ![CacheTicker] = save_cached_data(@, d, now)]
          /\ saved' = Returned(d)
    /\ loaded' = NotCalled
    /\ UNCHANGED <<now, ticks>>
    /\ UNCHANGED notCache

\* load_cached_data(CacheTicker)
CacheLoad ==
    /\ loaded' = load_cached_data(cache[CacheTicker], now)
    /\ UNCHANGED <<cache, now, ticks, saved>>
    /\ UNCHANGED notCache

\* the file is deleted, overwritten or truncated from outside
CacheDamage ==
    /\ \E k \in DamagedKinds \cup {"missing"} :
          cache' = [cache EXCEPT ![CacheTicker] =
                       File(k, EmptyDf, IF k = "none_df" THEN now ELSE 0)]
    /\ loaded' = NotCalled
    /\ saved' = NotCalled
    /\ UNCHANGED <<now, ticks>>
    /\ UNCHANGED notCache

\* time passes: an hour, or an hour less than CACHE_HOURS
Tick ==
    /\ ticks < MaxTicks
    /\ \E dt \in {1, CACHE_HOURS - 1} : now' = now + dt
    /\ ticks' = ticks + 1
    /\ loaded' = NotCalled
    /\ saved' = NotCalled
    /\ UNCHANGED cache
    /\ UNCHANGED notCache

CacheNext == CacheSave \/ CacheLoad \/ CacheDamage \/ Tick

SpecCache == CacheInit /\ [][CacheNext]_vars

\* ------------------------------------------------------------------------
\* Properties of the cache
\* ------------------------------------------------------------------------
\* a load has just run and nothing happened since the latest save but loads
LoadedRightAfterSave == saved.status = "hit" /\ loaded.status # "none"

\* the minimum-size and minimum-span requirements of a series at time t
MeetsSizeAndSpan(d, t) ==
    /\ Len(d) >= MIN_BARS_REQUIRED
    /\ Len(d) >= EXPECTED_MIN_BARS_5Y
    /\ Today(t) - FirstDate(d) >= 1717

\* C4 (as stated): for any series S that meets the minimum-size and
\* minimum-span requirements, save_cached_data(sym, S) followed immediately
\* by load_cached_data(sym) returns S.
C4_RoundTrip ==
    (LoadedRightAfterSave /\ MeetsSizeAndSpan(saved.df, now))
        => loaded = Returned(saved.df)

\* C4 (amended): for any series S that meets the minimum-size and
\* minimum-span requirements and whose last bar is at most 7 days old,
\* save_cached_data(sym, S) followed immediately by load_cached_data(sym)
\* returns S.
C4_RoundTripOfCurrentSeries ==
    (/\ LoadedRightAfterSave
     /\ MeetsSizeAndSpan(saved.df, now)
     /\ Today(now) - LastDate(saved.df) <= 7)
        => loaded = Returned(saved.df)

\* C4 witness: a save of a series that meets all requirements, then a load
\* that returns it, over a file that was damaged before
C4_Witness ==
    /\ LoadedRightAfterSave
    /\ MeetsSizeAndSpan(saved.df, now)
    /\ Today(now) - LastDate(saved.df) = 7
    /\ loaded = Returned(saved.df)
    /\ now > Now0

RevState == [trend |-> trend, last_sma_val |-> last_sma_val,
             last_date |-> last_date, reversals |-> reversals,
             leg_start |-> leg_start]

\* a faulty filter: only the raw column is tested, a row without a
\* smoothed value is iterated
ValidRowRawOnly(row) == row.raw # NaN

\* a row survives df[[raw_col, sma_col]].dropna()
ValidRow(row) == row.raw # NaN /\ row.sma # NaN

\* curr_sma >= last_sma_val * (1 + threshold)
AtOrAbove(curr, last, thr) == curr * 100 >= last * (100 + thr)
\* curr_sma <= last_sma_val * (1 - threshold)
AtOrBelow(curr, last, thr) == curr * 100 <= last * (100 - thr)
\* curr_sma > last_sma_val * (1 + threshold)
Above(curr, last, thr) == curr * 100 > last * (100 + thr)
\* curr_sma < last_sma_val * (1 - threshold)
Below(curr, last, thr) == curr * 100 < last * (100 - thr)

\* a faulty tracker: the value is moved but last_date = date is missing
RetrackKeepsDate(st, date, curr, newTrend) ==
    [st EXCEPT !.trend = newTrend, !.last_sma_val = curr,
               !.leg_start = IF newTrend # st.trend THEN date ELSE @]

\* last_sma_val = curr_sma ; last_date = date, with the new trend
Retrack(st, date, curr, newTrend) ==
    [st EXCEPT !.trend = newTrend, !.last_sma_val = curr, !.last_date = date,
               !.leg_start = IF newTrend # st.trend THEN date ELSE @]

\* reversals.append((last_date, df.loc[last_date, raw_col], kind))
Emit(st, frame, kind) ==
    [st EXCEPT !.reversals = Append(@, [date  |-> st.last_date,
                                        price |-> frame[st.last_date].raw,
                                        kind  |-> kind])]

\* a faulty initial branch: a rise starts a downtrend and a fall an uptrend
FlatStepInverted(st, frame, date, curr, thr) ==
    IF AtOrAbove(curr, st.last_sma_val, thr) THEN Retrack(st, date, curr, -1)
    ELSE IF AtOrBelow(curr, st.last_sma_val, thr) THEN Retrack(st, date, curr, 1)
    ELSE st

\* a faulty initial branch: the trend is established only by a move of more
\* than the threshold
FlatStepStrict(st, frame, date, curr, thr) ==
    IF Above(curr, st.last_sma_val, thr) THEN Retrack(st, date, curr, 1)
    ELSE IF Below(curr, st.last_sma_val, thr) THEN Retrack(st, date, curr, -1)
    ELSE st

\* if trend == 0: establish the initial trend
FlatStep(st, frame, date, curr, thr) ==
    IF AtOrAbove(curr, st.last_sma_val, thr) THEN Retrack(st, date, curr, 1)
    ELSE IF AtOrBelow(curr, st.last_sma_val, thr) THEN Retrack(st, date, curr, -1)
    ELSE st

\* a faulty uptrend branch: the peak is emitted but the trend is never
\* turned to -1
UptrendStepNoFlip(st, frame, date, curr, thr) ==
    IF curr > st.last_sma_val THEN Retrack(st, date, curr, 1)
    ELSE IF Below(curr, st.last_sma_val, thr)
         THEN Retrack(Emit(st, frame, "peak"), date, curr, 1)
    ELSE st

\* a faulty uptrend branch: the peak is dated and priced at the bar that
\* confirmed the turn
UptrendStepConfirmBar(st, frame, date, curr, thr) ==
    IF curr > st.last_sma_val THEN Retrack(st, date, curr, 1)
    ELSE IF Below(curr, st.last_sma_val, thr)
         THEN Emit(Retrack(st, date, curr, -1), frame, "peak")
    ELSE st

\* a faulty uptrend branch: any bar below the tracked high confirms the
\* peak, however small the pullback
UptrendStepNoThreshold(st, frame, date, curr, thr) ==
    IF curr > st.last_sma_val THEN Retrack(st, date, curr, 1)
    ELSE IF curr < st.last_sma_val
         THEN Retrack(Emit(st, frame, "peak"), date, curr, -1)
    ELSE st

\* elif trend == 1: uptrend logic
UptrendStep(st, frame, date, curr, thr) ==
    IF curr > st.last_sma_val THEN Retrack(st, date, curr, 1)
    ELSE IF Below(curr, st.last_sma_val, thr)
         THEN Retrack(Emit(st, frame, "peak"), date, curr, -1)
    ELSE st

\* a faulty downtrend branch: the trough is dated and priced at the bar
\* that confirmed the turn
DowntrendStepConfirmBar(st, frame, date, curr, thr) ==
    IF curr < st.last_sma_val THEN Retrack(st, date, curr, -1)
    ELSE IF Above(curr, st.last_sma_val, thr)
         THEN Emit(Retrack(st, date, curr, 1), frame, "trough")
    ELSE st

\* elif trend == -1: downtrend logic
DowntrendStep(st, frame, date, curr, thr) ==
    IF curr < st.last_sma_val THEN Retrack(st, date, curr, -1)
    ELSE IF Above(curr, st.last_sma_val, thr)
         THEN Retrack(Emit(st, frame, "trough"), date, curr, 1)
    ELSE st

\* one iteration of  for date, row in valid_data.iterrows()
LoopBody(st, frame, date, curr, thr) ==
    IF st.trend = 0 THEN FlatStep(st, frame, date, curr, thr)
    ELSE IF st.trend = 1 THEN UptrendStep(st, frame, date, curr, thr)
    ELSE DowntrendStep(st, frame, date, curr, thr)

\* last_sma_val = valid_data[sma_col].iloc[0]; last_date = valid_data.index[0]
\* (taken once, from the first row that survives dropna)
Anchored(st, date, curr) ==
    IF st.last_date = 0
    THEN [st EXCEPT !.last_sma_val = curr, !.last_date = date, !.leg_start = date]
    ELSE st

RevInit ==
    /\ DashIdle /\ CacheIdle /\ PipeIdle
    /\ df = <<>>
    /\ threshold \in ThresholdPcts
    /\ trend = 0
    /\ last_sma_val = NaN
    /\ last_date = 0
    /\ reversals = <<>>
    /\ leg_start = 0
    /\ data_list = <<>>
    /\ last_extreme_val = NaN

\* The loop reaches a row that dropna removed: the row is in df but is not
\* iterated.
DroppedRow ==
    /\ Len(df) < MaxBars
    /\ \E raw \in RawVals \cup {NaN}, sma \in SmaVals \cup {NaN} :
          /\ ~ValidRow([raw |-> raw, sma |-> sma])
          /\ df' = Append(df, [raw |-> raw, sma |-> sma])
    /\ UNCHANGED <<threshold, trend, last_sma_val, last_date, reversals, leg_start,
                   data_list, last_extreme_val>>
    /\ UNCHANGED notRev

\* The loop iterates over the next valid row.  The frame is revealed a row
\* at a time: an iteration reads no row later than its own.
IterateRow ==
    /\ Len(df) < MaxBars
    /\ \E raw \in RawVals, sma \in SmaVals :
          LET frame == Append(df, [raw |-> raw, sma |-> sma])
              date  == Len(frame)
              st    == LoopBody(Anchored(RevState, date, sma), frame, date, sma, threshold)
          IN /\ df' = frame
             /\ trend' = st.trend
             /\ last_sma_val' = st.last_sma_val
             /\ last_date' = st.last_date
             /\ reversals' = st.reversals
             /\ leg_start' = st.leg_start
    /\ UNCHANGED <<threshold, data_list, last_extreme_val>>
    /\ UNCHANGED notRev

RevNext == DroppedRow \/ IterateRow

SpecRev == RevInit /\ [][RevNext]_vars


\* ------------------------------------------------------------------------
\* generate_dashboard: SMA direction reversals of one symbol
\* (SectorIndexv12.py:238-272)
\* ------------------------------------------------------------------------
RECURSIVE SumRange(_, _, _)
\* c[lo] + ... + c[hi]
SumRange(c, lo, hi) == IF lo > hi THEN 0 ELSE c[hi] + SumRange(c, lo, hi - 1)

Max2(a, b) == IF a >= b THEN a ELSE b
Min2(a, b) == IF a <= b THEN a ELSE b
Sign(x) == IF x > 0 THEN 1 ELSE IF x < 0 THEN -1 ELSE 0
\* min() and max() of a column slice skip NaN; NaN when no value is valid
ValidVals(c, lo, hi) == {c[k] : k \in lo..hi} \ {NaN}
SeqMin(c, lo, hi) ==
    IF ValidVals(c, lo, hi) = {} THEN NaN
    ELSE CHOOSE m \in ValidVals(c, lo, hi) : \A v \in ValidVals(c, lo, hi) : m <= v
SeqMax(c, lo, hi) ==
    IF ValidVals(c, lo, hi) = {} THEN NaN
    ELSE CHOOSE m \in ValidVals(c, lo, hi) : \A v \in ValidVals(c, lo, hi) : m >= v

\* df['Close'].rolling(PLOT_SMA_PERIOD, min_periods=1).mean() at bar i, as
\* the pair (sum, count) of the window: the mean is sum / count
\* (a NaN close adds nothing to the sum and is not counted; the mean of a
\* window without a valid close is NaN)
SmaSum(c, i) == SumRange(c, Max2(1, i - SmaPeriod + 1), i)
SmaCount(c, i) == Cardinality({k \in Max2(1, i - SmaPeriod + 1)..i : c[k] # NaN})

\* np.sign(df[SMA_KEY].diff().fillna(0)) at bar i
SMA_Direction(c, i) ==
    IF i = 1 \/ SmaCount(c, i) = 0 \/ SmaCount(c, i - 1) = 0 THEN 0
    ELSE Sign(SmaSum(c, i) * SmaCount(c, i - 1) - SmaSum(c, i - 1) * SmaCount(c, i))

\* a faulty change test: every bar counts as a direction change
Direction_ChangeAlways(c, i) == TRUE

\* df['SMA_Direction'] != df['SMA_Direction'].shift(1).fillna(0) at bar i
Direction_Change(c, i) ==
    SMA_Direction(c, i) # (IF i = 1 THEN 0 ELSE SMA_Direction(c, i - 1))

\* round(x, 2) of x = num / den percent, in hundredths of a percent
\* (round half to even)
RoundHundredths(num, den) ==
    LET n == num * 100
        q == n \div den
        r == n % den
    IN IF 2 * r > den \/ (2 * r = den /\ q % 2 = 1) THEN q + 1 ELSE q

\* round(x, 2) of a price x given in thousandths, in hundredths
\* (round half to even)
RoundCents(mills) ==
    LET q == mills \div 10
        r == mills % 10
    IN IF r > 5 \/ (r = 5 /\ q % 2 = 1) THEN q + 1 ELSE q

\* the event appended for bar i, where ext is the lookback extreme
DashEvent(c, i, ext, signal) ==
    [date |-> i, price |-> RoundCents(c[i]), signal |-> signal,
     move |-> RoundHundredths((c[i] - ext) * 100, ext)]

\* a faulty gate: any rise over the lookback low passes
BullGateAnyRise(close, prev_low) ==
    /\ close # NaN /\ prev_low # NaN
    /\ close - prev_low >= 0

\* move_pct >= REVERSAL_PRICE_THRESHOLD, move_pct = (close - prev_low) / prev_low * 100
BullGate(close, prev_low) ==
    /\ close # NaN /\ prev_low # NaN
    /\ (close - prev_low) * 100 >= REVERSAL_PRICE_THRESHOLD * prev_low
\* move_pct <= -REVERSAL_PRICE_THRESHOLD, move_pct = (close - prev_high) / prev_high * 100
BearGate(close, prev_high) ==
    /\ close # NaN /\ prev_high # NaN
    /\ (close - prev_high) * 100 <= (0 - REVERSAL_PRICE_THRESHOLD) * prev_high

\* the body of  for idx in df[df['Direction_Change']].index  at bar i: the
\* events it appends to revs
ScanBar(c, i, revs) ==
    LET lo == Max2(1, i - LookbackBars + 1)
        current_dir == SMA_Direction(c, i)
        prev_low == SeqMin(c, lo, i)
        prev_high == SeqMax(c, lo, i)
    IN IF ~Direction_Change(c, i) \/ i = 1 THEN revs
       ELSE IF current_dir > 0
            THEN IF BullGate(c[i], prev_low)
                 THEN Append(revs, DashEvent(c, i, prev_low, "Bull"))
                 ELSE revs
       ELSE IF current_dir < 0
            THEN IF BearGate(c[i], prev_high)
                 THEN Append(revs, DashEvent(c, i, prev_high, "Bear"))
                 ELSE revs
       ELSE revs

DashInit == RevIdle /\ DashIdle /\ CacheIdle /\ PipeIdle

\* The scan moves to the next bar of the symbol's frame.  A bar's events
\* depend on no later bar, so the frame is revealed a bar at a time.
\* The bar is no direction change, or one with a zero direction.
DashQuietBar ==
    /\ Len(dash_close) < MaxDashBars
    /\ \E close \in ClosePrices :
          LET c == Append(dash_close, close)
              i == Len(c)
          IN /\ ~Direction_Change(c, i) \/ i = 1 \/ SMA_Direction(c, i) = 0
             /\ dash_close' = c
             /\ dash_reversals' = ScanBar(c, i, dash_reversals)
    /\ UNCHANGED notDash

\* The bar is a direction change to a non-zero direction: the magnitude
\* gate decides.
DashTurnBar ==
    /\ Len(dash_close) < MaxDashBars
    /\ \E close \in ClosePrices :
          LET c == Append(dash_close, close)
              i == Len(c)
          IN /\ Direction_Change(c, i) /\ i # 1 /\ SMA_Direction(c, i) # 0
             /\ dash_close' = c
             /\ dash_reversals' = ScanBar(c, i, dash_reversals)
    /\ UNCHANGED notDash

DashNext == DashQuietBar \/ DashTurnBar

SpecDash == DashInit /\ [][DashNext]_vars

SignalDir(signal) == IF signal = "Bull" THEN 1 ELSE -1

NaNRat == [n |-> 0, d |-> 0]
ZeroRat == [n |-> 0, d |-> 1]
Abs(x) == IF x < 0 THEN 0 - x ELSE x
RECURSIVE Gcd(_, _)
Gcd(a, b) == IF b = 0 THEN a ELSE Gcd(b, a % b)
\* the fraction n / d in lowest terms
Rat(n, d) ==
    IF d = 0 THEN NaNRat
    ELSE LET g == Gcd(Abs(n), Abs(d))
         IN IF d < 0 THEN [n |-> (0 - n) \div g, d |-> (0 - d) \div g]
            ELSE [n |-> n \div g, d |-> d \div g]
IsNaN(x) == x.d = 0
IsZero(x) == x.d # 0 /\ x.n = 0
\* x > 0 and x < 0; both are false of NaN
Positive(x) == x.d # 0 /\ x.n > 0
Negative(x) == x.d # 0 /\ x.n < 0
\* .fillna(0)
FillNa0(x) == IF IsNaN(x) THEN ZeroRat ELSE x

\* the Close column of a series
Closes(d) == [i \in 1..Len(d) |-> d[i].close]

\* df[SMA_KEY] at row i: rolling(PLOT_SMA_PERIOD, min_periods=1).mean()
SmaAt(d, i) == Rat(SmaSum(Closes(d), i), SmaCount(Closes(d), i))

\* a * 100 where a = (x - prev) / prev, the pct_change of a column
PctChange(x, prev) ==
    IF x = NaN \/ prev = NaN THEN NaNRat ELSE Rat((x - prev) * 100, prev)

\* df['Return'] at row i: df['Close'].pct_change() * 100
ReturnAt(d, i) == IF i = 1 THEN NaNRat ELSE PctChange(d[i].close, d[i - 1].close)

\* spy_df['Close'] at a date of df's index (reindex: NaN when spy_df has no
\* such date)
SpyAt(spy, date) ==
    IF \E k \in DOMAIN spy : spy[k].date = date
    THEN spy[CHOOSE k \in DOMAIN spy : spy[k].date = date].close
    ELSE NaN

\* aligned = spy_df['Close'].reindex(df.index).ffill() at row i
Aligned(spy, d, i) ==
    LET known == {k \in 1..i : SpyAt(spy, d[k].date) # NaN}
    IN IF known = {} THEN NaN
       ELSE SpyAt(spy, d[CHOOSE k \in known : \A j \in known : j <= k].date)

\* aligned.notna().any()
AnyAligned(spy, d) == \E i \in DOMAIN d : Aligned(spy, d, i) # NaN

\* df['Alpha'] at row i: (df['Return'] - aligned.pct_change() * 100).fillna(0)
AlphaAt(spy, d, i) ==
    LET r == ReturnAt(d, i)
        b == IF i = 1 THEN NaNRat
             ELSE PctChange(Aligned(spy, d, i), Aligned(spy, d, i - 1))
    IN IF IsNaN(r) \/ IsNaN(b) THEN ZeroRat
       ELSE Rat(r.n * b.d - b.n * r.d, r.d * b.d)

\* df['Rel_Perf_3M'] at row i: df['Rel_Line'].pct_change(63) * 100 with
\* Rel_Line = Close / aligned
RelPerfAt(spy, d, i) ==
    LET j == i - RelPerfPeriods
    IN IF j < 1 THEN NaNRat
       ELSE IF d[i].close = NaN \/ d[j].close = NaN
               \/ Aligned(spy, d, i) = NaN \/ Aligned(spy, d, j) = NaN THEN NaNRat
       ELSE Rat((d[i].close * Aligned(spy, d, j) - d[j].close * Aligned(spy, d, i)) * 100,
                d[j].close * Aligned(spy, d, i))

\* delta = df['Close'].diff() at row i is a number
HasDelta(d, i) == i > 1 /\ d[i].close # NaN /\ d[i - 1].close # NaN
\* delta.clip(lower=0) and -delta.clip(upper=0) at a row that has a delta
GainOf(d, i) == Max2(d[i].close - d[i - 1].close, 0)
LossOf(d, i) == Max2(d[i - 1].close - d[i].close, 0)
\* the rows of the window of rolling(14) that ends at row i
RsiWindow(i) == (i - RsiPeriod + 1)..i
\* rolling(14).mean() has a value: the window is full and free of NaN
WindowFull(d, i) == \A k \in RsiWindow(i) : k >= 1 /\ HasDelta(d, k)

RECURSIVE SumOver(_, _, _, _)
\* the sum of Col(d, k) for k from lo to hi
SumOver(Col(_, _), d, lo, hi) ==
    IF lo > hi THEN 0 ELSE Col(d, hi) + SumOver(Col, d, lo, hi - 1)

\* gain and loss at row i: the rolling means
AvgGain(d, i) ==
    IF WindowFull(d, i) THEN Rat(SumOver(GainOf, d, i - RsiPeriod + 1, i), RsiPeriod)
    ELSE NaNRat
AvgLoss(d, i) ==
    IF WindowFull(d, i) THEN Rat(SumOver(LossOf, d, i - RsiPeriod + 1, i), RsiPeriod)
    ELSE NaNRat

\* loss.replace(0, np.nan)
ReplaceZero(x) == IF IsZero(x) THEN NaNRat ELSE x
\* a / b of two columns' values
Quotient(a, b) ==
    IF IsNaN(a) \/ IsNaN(b) \/ IsZero(b) THEN NaNRat ELSE Rat(a.n * b.d, a.d * b.n)
\* rs = gain / loss.replace(0, np.nan)
RsAt(d, i) == Quotient(AvgGain(d, i), ReplaceZero(AvgLoss(d, i)))
\* 100 - 100 / (1 + rs)
RsiOfRs(rs) ==
    IF IsNaN(rs) \/ rs.n + rs.d = 0 THEN NaNRat
    ELSE Rat(100 * (rs.n + rs.d) - 100 * rs.d, rs.n + rs.d)

\* a faulty fill: the RSI keeps its NaN
FillNa50_Missing(x) == x

\* .fillna(50)
FillNa50(x) == IF IsNaN(x) THEN Rat(50, 1) ELSE x

\* df['RSI'] at row i
RsiAt(d, i) == FillNa50(RsiOfRs(RsAt(d, i)))

\* the row of the returned frame at i
IndRow(d, i, alpha, rel) ==
    [date |-> d[i].date, Close |-> d[i].close, sma |-> SmaAt(d, i),
     Return |-> ReturnAt(d, i), RSI |-> RsiAt(d, i), Alpha |-> alpha,
     Rel_Perf_3M |-> rel]

\* a faulty guard: the aligned.notna().any() test is missing
UsesBenchmarkNoAnyTest(d, spy) == Len(spy) > 0

\* the benchmark branch is taken: spy_df is not None, not empty, and
\* aligned has a value
UsesBenchmark(d, spy) == Len(spy) > 0 /\ AnyAligned(spy, d)

\* calculate_indicators(df, spy_df): the returned frame
calculate_indicators(d, spy) ==
    IF UsesBenchmark(d, spy)
    THEN [i \in 1..Len(d) |-> IndRow(d, i, AlphaAt(spy, d, i), RelPerfAt(spy, d, i))]
    ELSE [i \in 1..Len(d) |-> IndRow(d, i, ZeroRat, ZeroRat)]

\* the label and color pairs
Label(text, color) == [text |-> text, color |-> color]

\* a faulty table: the labels of the two mixed quadrants are exchanged
determine_trend_state_Exchanged(rows) ==
    IF Len(rows) = 0 THEN Label("Neutral", "#8a94a6")
    ELSE LET curRow == rows[Len(rows)]
             price == curRow.Close
             sma == curRow.sma
             rel == curRow.Rel_Perf_3M
             above == price # NaN /\ ~IsNaN(sma) /\ price * sma.d > sma.n
             below == price # NaN /\ ~IsNaN(sma) /\ price * sma.d < sma.n
         IN IF above /\ Positive(rel) THEN Label("LEADING", "#26a69a")
            ELSE IF above /\ Negative(rel) THEN Label("IMPROVING", "#45B7D1")
            ELSE IF below /\ Positive(rel) THEN Label("WEAKENING", "#F7DC6F")
            ELSE IF below /\ Negative(rel) THEN Label("LAGGING", "#ef5350")
            ELSE Label("Neutral", "#8a94a6")

\* a faulty table: the last quadrant is the fall-through of the others
determine_trend_state_NoFallThrough(rows) ==
    IF Len(rows) = 0 THEN Label("Neutral", "#8a94a6")
    ELSE LET curRow == rows[Len(rows)]
             price == curRow.Close
             sma == curRow.sma
             rel == curRow.Rel_Perf_3M
             above == price # NaN /\ ~IsNaN(sma) /\ price * sma.d > sma.n
             below == price # NaN /\ ~IsNaN(sma) /\ price * sma.d < sma.n
         IN IF above /\ Positive(rel) THEN Label("LEADING", "#26a69a")
            ELSE IF above /\ Negative(rel) THEN Label("WEAKENING", "#F7DC6F")
            ELSE IF below /\ Positive(rel) THEN Label("IMPROVING", "#45B7D1")
            ELSE Label("LAGGING", "#ef5350")

\* a faulty table: a relative performance of zero counts as positive
determine_trend_state_ZeroIsPositive(rows) ==
    IF Len(rows) = 0 THEN Label("Neutral", "#8a94a6")
    ELSE LET curRow == rows[Len(rows)]
             price == curRow.Close
             sma == curRow.sma
             rel == curRow.Rel_Perf_3M
             above == price # NaN /\ ~IsNaN(sma) /\ price * sma.d > sma.n
             below == price # NaN /\ ~IsNaN(sma) /\ price * sma.d < sma.n
         IN IF above /\ (Positive(rel) \/ IsZero(rel)) THEN Label("LEADING", "#26a69a")
            ELSE IF above /\ Negative(rel) THEN Label("WEAKENING", "#F7DC6F")
            ELSE IF below /\ (Positive(rel) \/ IsZero(rel)) THEN Label("IMPROVING", "#45B7D1")
            ELSE IF below /\ Negative(rel) THEN Label("LAGGING", "#ef5350")
            ELSE Label("Neutral", "#8a94a6")

\* determine_trend_state(df) on the frame of calculate_indicators
determine_trend_state(rows) ==
    IF Len(rows) = 0 THEN Label("Neutral", "#8a94a6")
    ELSE LET curRow == rows[Len(rows)]
             price == curRow.Close
             sma == curRow.sma
             rel == curRow.Rel_Perf_3M
             above == price # NaN /\ ~IsNaN(sma) /\ price * sma.d > sma.n
             below == price # NaN /\ ~IsNaN(sma) /\ price * sma.d < sma.n
         IN IF above /\ Positive(rel) THEN Label("LEADING", "#26a69a")
            ELSE IF above /\ Negative(rel) THEN Label("WEAKENING", "#F7DC6F")
            ELSE IF below /\ Positive(rel) THEN Label("IMPROVING", "#45B7D1")
            ELSE IF below /\ Negative(rel) THEN Label("LAGGING", "#ef5350")
            ELSE Label("Neutral", "#8a94a6")

RECURSIVE ScanAll(_, _)
\* the list `reversals` after the loop has passed bar i
ScanAll(c, i) == IF i = 0 THEN <<>> ELSE ScanBar(c, i, ScanAll(c, i - 1))

\* the record appended to sectors_data for a ticker (an event's date is the
\* position of its bar in the frame)
SectorRecord(tk, rows, d) ==
    LET last == rows[Len(rows)]
        trend_state == determine_trend_state(rows)
    IN [ticker |-> tk,
        price |-> last.Close,
        return |-> last.Return,
        alpha |-> last.Alpha,
        rel_perf |-> last.Rel_Perf_3M,
        trend_text |-> trend_state.text,
        trend_color |-> trend_state.color,
        reversals |-> ScanAll(Closes(d), Len(d))]

RECURSIVE InsertByAlpha(_, _)
\* rec put into the alpha-sorted list recs, after the records that do not
\* sort after it (the sort is stable)
InsertByAlpha(recs, rec) ==
    IF Len(recs) = 0 THEN <<rec>>
    ELSE LET lastRec == recs[Len(recs)]
         IN IF rec.alpha.n * lastRec.alpha.d < lastRec.alpha.n * rec.alpha.d
            THEN Append(InsertByAlpha(SubSeq(recs, 1, Len(recs) - 1), rec), lastRec)
            ELSE Append(recs, rec)

RECURSIVE SortByAlpha(_)
\* sectors_data.sort(key=lambda x: x.get('alpha', 0))
SortByAlpha(recs) ==
    IF Len(recs) = 0 THEN <<>>
    ELSE InsertByAlpha(SortByAlpha(SubSeq(recs, 1, Len(recs) - 1)), recs[Len(recs)])

\* ------------------------------------------------------------------------
\* get_stock_data: one attempt (SectorIndexv12.py:107-147)
\* ------------------------------------------------------------------------

\* What one requests.get call meets.
\*   transport   requests.get raises (connection error, timeout)
\*   http_error  r.raise_for_status() raises
\*   bad_json    r.json() raises
\*   no_result   data['chart']['result'][0] or result['timestamp'] raises
\*   chart       a chart result with a timestamp array, a quote and an
\*               optional adjclose array
Failure(kind) ==
    [kind |-> kind, ts |-> <<>>, close |-> Absent, adjclose |-> Absent, volume |-> Absent]
Chart(ts, close, adjclose, volume) ==
    [kind |-> "chart", ts |-> ts, close |-> close, adjclose |-> adjclose,
     volume |-> volume]
FailureKinds == {"transport", "http_error", "bad_json", "no_result"}

\* adj = result['indicators'].get('adjclose', [{}])[0]
\*           .get('adjclose', quote.get('close', []))
AdjOf(r) ==
    IF r.adjclose.present THEN r.adjclose.vals
    ELSE IF r.close.present THEN r.close.vals ELSE <<>>

\* 'Close': adj if len(adj) == len(ts) else quote.get('close')
CloseColumn(r) == IF Len(AdjOf(r)) = Len(r.ts) THEN Arr(AdjOf(r)) ELSE r.close

\* pd.DataFrame raises for a list whose length is not the index's; a
\* column that is None is filled with NaN
ColumnFits(col, n) == ~col.present \/ Len(col.vals) = n
CellOf(col, i) == IF col.present THEN col.vals[i] ELSE NaN

\* .ffill() of a column at row i: the last value at or before i that is
\* not NaN
Ffill(col, i) ==
    LET known == {k \in 1..i : CellOf(col, k) # NaN}
    IN IF known = {} THEN NaN
       ELSE CellOf(col, CHOOSE k \in known : \A j \in known : j <= k)

\* the first n elements of sq kept in order when they satisfy the test
RECURSIVE KeepRows(_, _)
KeepRows(rows, n) ==
    IF n = 0 THEN <<>>
    ELSE IF rows[n].close = NaN /\ rows[n].volume = NaN
         THEN KeepRows(rows, n - 1)
         ELSE Append(KeepRows(rows, n - 1), rows[n])

\* pd.DataFrame({...}, index=pd.to_datetime(ts)).ffill().dropna(how='all')
FrameOf(r) ==
    LET filled == [i \in 1..Len(r.ts) |->
                      [date |-> r.ts[i],
                       close |-> Ffill(CloseColumn(r), i),
                       volume |-> Ffill(r.volume, i)]]
    IN KeepRows(filled, Len(filled))

\* the try block of one attempt up to the frame: what it raises or builds
AttemptBody(r) ==
    IF r.kind # "chart" THEN Raised
    ELSE IF ~ColumnFits(CloseColumn(r), Len(r.ts)) \/ ~ColumnFits(r.volume, Len(r.ts))
         THEN Raised
    ELSE Returned(FrameOf(r))

\* ------------------------------------------------------------------------
\* What the network can answer
\* ------------------------------------------------------------------------
Today0 == Today(Now0)
\* the dates of the bars of a fetched series, oldest first
DatesLong == <<Today0 - 1800, Today0 - 1799, Today0 - 1798, Today0 - 1>>
\* dates none of which is a date of DatesLong
DatesOff == <<Today0 - 1700, Today0 - 900, Today0 - 3>>
Ones(n) == [i \in 1..n |-> 1]

Responses ==
    {Failure(k) : k \in FailureKinds}
    \cup
    { \* an empty chart: timestamp [] with empty arrays
      Chart(<<>>, Arr(<<>>), Absent, Arr(<<>>)),
      \* a close array shorter than the timestamp array
      Chart(DatesLong, Arr(<<10, 11, 10>>), Absent, Arr(Ones(4))),
      \* four bars, no adjclose
      Chart(DatesLong, Arr(<<10, 11, 10, 12>>), Absent, Arr(Ones(4))),
      \* four bars with an adjclose array of the same length
      Chart(DatesLong, Arr(<<10, 11, 10, 12>>), Arr(<<12, 10, 11, 10>>), Arr(Ones(4))),
      \* three bars on other dates, with an adjclose array that does not fit
      Chart(DatesOff, Arr(<<10, 11, 12>>), Arr(<<10, 11>>), Arr(Ones(3))),
      \* a single bar
      Chart(<<Today0 - 1>>, Arr(<<10>>), Absent, Arr(<<1>>)),
      \* two bars: enough for the loop of generate_dashboard, too few for
      \* MIN_BARS_REQUIRED
      Chart(<<Today0 - 2, Today0 - 1>>, Arr(<<10, 12>>), Absent, Arr(Ones(2))) }

\* the cache files a run can find: none, a truncated one, one of the wrong
\* shape, a valid entry, an entry that has expired
InitialFiles ==
    LET held == FrameOf(Chart(DatesLong, Arr(<<11, 10, 11, 12>>), Absent, Arr(Ones(4))))
    IN {NoFile, File("corrupt", EmptyDf, 0), File("not_pair", EmptyDf, 0),
        PickleDump(held, Now0 - 10), PickleDump(held, Now0 - CACHE_HOURS - 1)}

\* ------------------------------------------------------------------------
\* generate_dashboard (SectorIndexv12.py:216-297)
\* ------------------------------------------------------------------------
\* 'SPY' first, then SECTORS in its order
Order == <<"SPY", "XLF", "XLV">>

PipeInit ==
    /\ RevIdle /\ DashIdle
    /\ cache \in [Tickers -> InitialFiles]
    /\ now = Now0
    /\ ticks = 0
    /\ loaded = NotCalled
    /\ saved = NotCalled
    /\ force_refresh \in BOOLEAN
    /\ pc = "call"
    /\ cur = 1
    /\ attempt = 0
    /\ requests = 0
    /\ last_resp = NoResponse
    /\ ret = NotCalled
    /\ spy_df = EmptyDf
    /\ sectors_data = <<>>
    /\ got = [tk \in Tickers |-> NotCalled]
    /\ ind = <<>>

\* a faulty lookup: every ticker reads the file of the benchmark
CacheLookupShared(tk) ==
    IF force_refresh THEN None ELSE load_cached_data(cache["SPY"], now)

\* a faulty lookup: the cache is read whatever force_refresh says
CacheLookupIgnoresForce(tk) == load_cached_data(cache[tk], now)

\* if not force_refresh: df = load_cached_data(ticker)
CacheLookup(tk) ==
    IF force_refresh THEN None ELSE load_cached_data(cache[tk], now)

\* get_stock_data is called for the current ticker and returns the cached
\* series
CallHit ==
    /\ pc = "call"
    /\ CacheLookup(Order[cur]).status = "hit"
    /\ ret' = CacheLookup(Order[cur])
    /\ got' = [got EXCEPT ![Order[cur]] = CacheLookup(Order[cur])]
    /\ pc' = "got"
    /\ attempt' = 0
    /\ requests' = 0
    /\ last_resp' = NoResponse
    /\ UNCHANGED <<force_refresh, cur, spy_df, sectors_data, ind, cache, now>>
    /\ UNCHANGED notPipe

\* get_stock_data is called for the current ticker and enters the retry
\* loop (an exception of the lookup would end the run)
CallFetch ==
    /\ pc = "call"
    /\ CacheLookup(Order[cur]).status # "hit"
    /\ pc' = IF CacheLookup(Order[cur]).status = "raised" THEN "crashed" ELSE "fetch"
    /\ attempt' = 1
    /\ requests' = 0
    /\ last_resp' = NoResponse
    /\ ret' = NotCalled
    /\ UNCHANGED <<force_refresh, cur, spy_df, sectors_data, got, ind, cache, now>>
    /\ UNCHANGED notPipe

\* an attempt builds a frame: save_cached_data(ticker, df); return df
AttemptAccepted ==
    /\ pc = "fetch"
    /\ \E r \in Responses :
          /\ AttemptBody(r).status = "hit"
          /\ cache' = [cache EXCEPT ![Order[cur]] =
                           save_cached_data(@, AttemptBody(r).df, now)]
          /\ ret' = AttemptBody(r)
          /\ got' = [got EXCEPT ![Order[cur]] = AttemptBody(r)]
          /\ last_resp' = r
    /\ requests' = requests + 1
    /\ pc' = "got"
    /\ UNCHANGED <<force_refresh, cur, attempt, spy_df, sectors_data, ind, now>>
    /\ UNCHANGED notPipe

\* a faulty loop: it has no bound
LastAttemptNever(a) == FALSE

\* the for loop is at its last attempt
LastAttempt(a) == a >= MaxAttempts

\* a faulty give-up: after the last failed attempt the series of the
\* ticker's cache file is returned, whatever its age
AttemptFailedFallback ==
    /\ pc = "fetch"
    /\ \E r \in Responses : AttemptBody(r).status = "raised" /\ last_resp' = r
    /\ requests' = requests + 1
    /\ IF LastAttempt(attempt)
       THEN /\ ret' = Returned(cache[Order[cur]].df)
            /\ got' = [got EXCEPT ![Order[cur]] = Returned(cache[Order[cur]].df)]
            /\ pc' = "got"
            /\ UNCHANGED attempt
       ELSE /\ attempt' = attempt + 1
            /\ UNCHANGED <<ret, got, pc>>
    /\ UNCHANGED <<force_refresh, cur, spy_df, sectors_data, ind, cache, now>>
    /\ UNCHANGED notPipe

\* an attempt raises: except Exception: sleep; after the last attempt
\* return pd.DataFrame()
AttemptFailed ==
    /\ pc = "fetch"
    /\ \E r \in Responses : AttemptBody(r).status = "raised" /\ last_resp' = r
    /\ requests' = requests + 1
    /\ IF LastAttempt(attempt)
       THEN /\ ret' = Returned(EmptyDf)
            /\ got' = [got EXCEPT ![Order[cur]] = Returned(EmptyDf)]
            /\ pc' = "got"
            /\ UNCHANGED attempt
       ELSE /\ attempt' = attempt + 1
            /\ UNCHANGED <<ret, got, pc>>
    /\ UNCHANGED <<force_refresh, cur, spy_df, sectors_data, ind, cache, now>>
    /\ UNCHANGED notPipe

\* the position after the current ticker, and whether the loop is over
NextPc == IF cur = Len(Order) THEN "sort" ELSE "call"
NextCur == IF cur = Len(Order) THEN cur ELSE cur + 1

\* spy_df = get_stock_data('SPY', force_refresh)
TakeBenchmark ==
    /\ pc = "got"
    /\ cur = 1
    /\ spy_df' = ret.df
    /\ pc' = NextPc
    /\ cur' = NextCur
    /\ UNCHANGED <<force_refresh, attempt, requests, last_resp, ret, sectors_data, got, ind, cache, now>>
    /\ UNCHANGED notPipe

\* a faulty skip test: only an empty frame is skipped
SkippedOnlyIfEmpty(d) == Len(d) = 0

\* if df.empty or len(df) < 100
Skipped(d) == Len(d) = 0 \/ Len(d) < DashMinBars

\* a sector whose frame is empty or too short: continue
SkipSymbol ==
    /\ pc = "got"
    /\ cur > 1
    /\ Skipped(ret.df)
    /\ pc' = NextPc
    /\ cur' = NextCur
    /\ UNCHANGED <<force_refresh, attempt, requests, last_resp, ret, spy_df, sectors_data, got, ind, cache, now>>
    /\ UNCHANGED notPipe

\* a sector with data: indicators, trend state, reversals, the record
ProcessSymbol ==
    /\ pc = "got"
    /\ cur > 1
    /\ ~Skipped(ret.df)
    /\ ind' = calculate_indicators(ret.df, spy_df)
    /\ sectors_data' = Append(sectors_data, SectorRecord(Order[cur], ind', ret.df))
    /\ pc' = NextPc
    /\ cur' = NextCur
    /\ UNCHANGED <<force_refresh, attempt, requests, last_resp, ret, spy_df, got, cache, now>>
    /\ UNCHANGED notPipe

\* after the loop: sectors_data.sort(key=alpha)
SortRecords ==
    /\ pc = "sort"
    /\ sectors_data' = SortByAlpha(sectors_data)
    /\ pc' = "done"
    /\ UNCHANGED <<force_refresh, cur, attempt, requests, last_resp, ret, spy_df, got, ind, cache, now>>
    /\ UNCHANGED notPipe

Next ==
    \/ CallHit \/ CallFetch
    \/ AttemptAccepted \/ AttemptFailed
    \/ TakeBenchmark \/ SkipSymbol \/ ProcessSymbol
    \/ SortRecords

Spec == PipeInit /\ [][Next]_vars

\* ------------------------------------------------------------------------
\* One call of get_stock_data on its own
\* ------------------------------------------------------------------------
\* the call is get_stock_data('SPY', force_refresh); only its file matters
FetchInit ==
    /\ RevIdle /\ DashIdle
    /\ \E f \in InitialFiles : cache = [tk \in Tickers |-> IF tk = "SPY" THEN f ELSE NoFile]
    /\ now = Now0
    /\ ticks = 0
    /\ loaded = NotCalled
    /\ saved = NotCalled
    /\ force_refresh \in BOOLEAN
    /\ pc = "call"
    /\ cur = 1
    /\ attempt = 0
    /\ requests = 0
    /\ last_resp = NoResponse
    /\ ret = NotCalled
    /\ spy_df = EmptyDf
    /\ sectors_data = <<>>
    /\ got = [tk \in Tickers |-> NotCalled]
    /\ ind = <<>>

FetchNext == CallHit \/ CallFetch \/ AttemptAccepted \/ AttemptFailed

\* Every step of the call is taken in the end: a request ends by its
\* timeout of 25 seconds and every sleep is finite.
SpecFetch == FetchInit /\ [][FetchNext]_vars /\ WF_vars(FetchNext)

\* ------------------------------------------------------------------------
\* Properties of get_stock_data and generate_dashboard
\* ------------------------------------------------------------------------
\* C6: a cache file that is missing, truncated or of the wrong shape makes
\* load_cached_data return None, never raise, and get_stock_data goes on to
\* its first fetch attempt.
C6_UnreadableEntryIsMiss ==
    [][(pc = "call" /\ ~force_refresh
          /\ cache[Order[cur]].kind \in DamagedKinds \cup {"missing"})
       => /\ load_cached_data(cache[Order[cur]], now) = None
          /\ pc' = "fetch"
          /\ attempt' = 1
          /\ requests' = 0]_vars

\* C6 witness: the first attempt is about to be made over a truncated file
C6_Witness ==
    /\ pc = "fetch"
    /\ ~force_refresh
    /\ requests = 0
    /\ cache[Order[cur]].kind = "corrupt"
    /\ cur > 1

\* the try block of an attempt that met r ran to its return
Accepted(r) == AttemptBody(r).status = "hit"

\* C7: a call that has to fetch makes at most 5 requests, returns the frame
\* of the first accepted response, returns the empty series after 5 failed
\* attempts, raises nothing, and always returns.
C7_BoundedRetries ==
    /\ [](/\ requests <= 5
          /\ pc # "crashed"
          /\ (pc = "fetch" => requests < 5 /\ (requests > 0 => ~Accepted(last_resp)))
          /\ (pc = "got" /\ requests > 0) =>
                \/ Accepted(last_resp) /\ ret = AttemptBody(last_resp)
                \/ ~Accepted(last_resp) /\ requests = 5 /\ ret = Returned(EmptyDf))
    /\ [][pc = "fetch" => requests' = requests + 1]_vars
    /\ ((pc = "fetch") ~> (pc = "got"))

\* C7 witness: the call returned the empty series after five failed
\* requests, the last of them a transport failure
C7_Witness ==
    /\ pc = "got"
    /\ requests = 5
    /\ last_resp.kind = "transport"
    /\ ret = Returned(EmptyDf)

\* a response that carries a non-empty timestamp array and a close array
\* of the same length
HasBars(r) ==
    /\ r.kind = "chart"
    /\ Len(r.ts) > 0
    /\ CloseColumn(r).present
    /\ Len(CloseColumn(r).vals) = Len(r.ts)

\* C8: a response is accepted only if it has a non-empty timestamp array
\* and a close array of the same length; a response that parses to an empty
\* result is a failed attempt, followed by a retry while attempts are left.
C8_EmptyResultIsFailedAttempt ==
    /\ (pc = "got" /\ requests > 0 /\ requests < 5) => HasBars(last_resp)
    /\ (pc = "got" /\ requests > 0 /\ Len(ret.df) > 0) => HasBars(last_resp)

\* the sectors, in the order of SECTORS
Sectors == {Order[k] : k \in 2..Len(Order)}
\* the records of a ticker
RecordsOf(tk) == {k \in DOMAIN sectors_data : sectors_data[k].ticker = tk}
\* a series the loop of generate_dashboard works on
Usable(d) == Len(d) >= DashMinBars
\* the loop over SECTORS is over
LoopOver == pc \in {"sort", "done"}

\* C9: after a run the result holds exactly one record for each sector
\* whose load-or-fetch gave a usable series, and none for a sector whose
\* fetch failed on all attempts; each record is the one computed from the
\* sector's own series and the benchmark alone.
C9_RecordsOfUsableSymbols ==
    LoopOver =>
       /\ \A tk \in Sectors :
             IF Usable(got[tk].df)
             THEN /\ Cardinality(RecordsOf(tk)) = 1
                  /\ \A k \in RecordsOf(tk) :
                        sectors_data[k] =
                           SectorRecord(tk, calculate_indicators(got[tk].df, got["SPY"].df),
                                        got[tk].df)
             ELSE RecordsOf(tk) = {}
       /\ Len(sectors_data) = Cardinality({tk \in Sectors : Usable(got[tk].df)})

\* C9 witness: the run is over, the fetch of the first sector failed on all
\* attempts and the second sector has its record
C9_Witness ==
    /\ pc = "done"
    /\ got["XLF"] = Returned(EmptyDf)
    /\ cache["XLF"].kind # "pair"
    /\ Len(sectors_data) = 1
    /\ sectors_data[1].ticker = "XLV"
    /\ sectors_data[1].reversals # <<>>

\* no bar of the benchmark with a value falls on a date of the frame
NothingAligns(rows) ==
    \A i \in DOMAIN rows : \A k \in DOMAIN spy_df :
        spy_df[k].date = rows[i].date => spy_df[k].close = NaN

\* C10: when the benchmark is empty or has no value on any date of the
\* symbol, calculate_indicators gives Alpha = 0 and Rel_Perf_3M = 0 on
\* every row, nothing is raised, and the run still has a record for every
\* sector with data.
C10_DegradedBenchmarkGivesZeros ==
    /\ pc # "crashed"
    /\ (Len(ind) > 0 /\ (Len(spy_df) = 0 \/ NothingAligns(ind))) =>
          \A i \in DOMAIN ind : IsZero(ind[i].Alpha) /\ IsZero(ind[i].Rel_Perf_3M)
    /\ (LoopOver /\ (Len(spy_df) = 0 \/ NothingAligns(ind))) =>
          \A tk \in Sectors : Usable(got[tk].df) => RecordsOf(tk) # {}

\* C10 witness: the run is over with a benchmark that is not empty but
\* shares no date with the sectors, and both sectors have their records
C10_Witness ==
    /\ pc = "done"
    /\ Len(spy_df) > 0
    /\ Len(ind) > 0
    /\ NothingAligns(ind)
    /\ Len(sectors_data) = 2
    /\ \A k \in DOMAIN sectors_data : IsZero(sectors_data[k].rel_perf)

\* ------------------------------------------------------------------------
\* Properties of find_sma_reversals
\* ------------------------------------------------------------------------
\* C1: the list built by find_sma_reversals never holds two consecutive
\* events of the same kind: a peak is followed by a trough and a trough by a
\* peak, for every frame and every threshold.
C1_KindsAlternate ==
    \A i \in 1..(Len(reversals) - 1) : reversals[i].kind # reversals[i + 1].kind

\* C1 witness: a peak directly followed by a trough directly followed by a peak
C1_Witness ==
    /\ Len(reversals) >= 3
    /\ reversals[1].kind = "peak"
    /\ reversals[2].kind = "trough"
    /\ reversals[3].kind = "peak"

\* the valid rows of the leg that ends at the bar before `bar`
LegDates(bar) == {d \in leg_start..(bar - 1) : ValidRow(df[d])}

\* C3: an event appended while the loop is at bar b is dated at the bar where
\* the tracked extreme of the leg that just ended was recorded (the first
\* bar holding the leg's highest smoothed value for a peak, its lowest for a
\* trough), that bar is strictly earlier than b, and the event's price is the
\* raw column's value at that date.
C3_EventAtTrackedExtreme ==
    [][Len(reversals') > Len(reversals) =>
         LET e   == reversals'[Len(reversals')]
             bar == Len(df')
         IN /\ Len(reversals') = Len(reversals) + 1
            /\ e.date = last_date
            /\ e.date \in LegDates(bar)
            /\ e.date < bar
            /\ df[e.date].sma = last_sma_val
            /\ \A d \in LegDates(bar) :
                  /\ e.kind = "peak" => df[d].sma <= df[e.date].sma
                  /\ e.kind = "trough" => df[d].sma >= df[e.date].sma
                  /\ d < e.date => df[d].sma # df[e.date].sma
            /\ e.price = df'[e.date].raw
            /\ e.price # df'[e.date].sma
       ]_vars

\* C3 witness: an event whose price is the raw value at its date while both
\* the raw value at the confirming bar and the raw value of the bar after the
\* event's date are different
C3_Witness ==
    \E i \in DOMAIN reversals :
        LET e == reversals[i]
        IN /\ e.date + 1 < Len(df)
           /\ e.price = df[e.date].raw
           /\ e.price # df[Len(df)].raw
           /\ e.price # df[e.date + 1].raw
           /\ last_date = Len(df)

\* valid_data = df[[raw_col, sma_col]].dropna(): the rows the loop iterates
valid_data == SelectSeq(df, ValidRow)

\* the smoothed column of the rows is strictly increasing
StrictlyIncreasing(rows) ==
    \A i \in 1..(Len(rows) - 1) : rows[i].sma < rows[i + 1].sma

\* C11: for a smoothed signal that is strictly increasing over its entire
\* length find_sma_reversals emits no event, for every threshold and every
\* length.
C11_MonotoneNoEvents == StrictlyIncreasing(valid_data) => reversals = <<>>

\* C11 witness: a frame of MaxBars rows, all valid, rising by more than the
\* threshold of 2 percent at its last step; the uptrend is established and
\* nothing was emitted
C11_Witness ==
    /\ Len(valid_data) = MaxBars
    /\ StrictlyIncreasing(valid_data)
    /\ threshold = 2
    /\ trend = 1
    /\ last_date = Len(df)
    /\ reversals = <<>>


\* ------------------------------------------------------------------------
\* find_sma_reversals on a V-shaped series
\* ------------------------------------------------------------------------
\* The smoothed values 100 .. 50 .. 100 are kept exact by counting them in
\* units of 1/VScale: the fall takes HalfBars - 1 steps, the rise HalfBars
\* - 1 steps (the minimum is held for two bars) or HalfBars steps (a single
\* bar at the minimum).
VScale == HalfBars * (HalfBars - 1)
VTop == 100 * VScale
VBottom == 50 * VScale
FallStep == 50 * HalfBars
SlowRiseStep == 50 * (HalfBars - 1)

\* the smoothed values the series can take at the bar after frame
VNextSma(frame) ==
    LET n == Len(frame)
    IN IF n = 0 THEN {VTop}
       ELSE IF n < HalfBars THEN {frame[n].sma - FallStep}
       ELSE IF n = HalfBars THEN {VBottom, VBottom + SlowRiseStep}
       ELSE IF frame[HalfBars + 1].sma = VBottom THEN {frame[n].sma + FallStep}
       ELSE {frame[n].sma + SlowRiseStep}

\* the raw close lies above the smoothed value by the same amount on every
\* bar of a series: by 1 or by 2
VOffsets(frame) ==
    IF Len(frame) = 0 THEN {VScale, 2 * VScale}
    ELSE {frame[1].raw - frame[1].sma}

\* find_sma_reversals(df, raw_col, sma_col) with the default threshold
VInit == RevInit /\ threshold = 1

\* the loop iterates over the next bar of the V
VRow ==
    /\ Len(df) < 2 * HalfBars
    /\ \E sma \in VNextSma(df), off \in VOffsets(df) :
          LET frame == Append(df, [raw |-> sma + off, sma |-> sma])
              date  == Len(frame)
              st    == LoopBody(Anchored(RevState, date, sma), frame, date, sma, threshold)
          IN /\ df' = frame
             /\ trend' = st.trend
             /\ last_sma_val' = st.last_sma_val
             /\ last_date' = st.last_date
             /\ reversals' = st.reversals
             /\ leg_start' = st.leg_start
    /\ UNCHANGED <<threshold, data_list, last_extreme_val>>
    /\ UNCHANGED notRev

SpecVShape == VInit /\ [][VRow]_vars

\* C12: on the series that falls linearly from 100 to 50 over the first
\* half of its 100 bars and rises linearly back to 100 over the second
\* half, with a threshold of 1 percent, find_sma_reversals emits exactly
\* one event: a trough dated at the bar of the minimum smoothed value and
\* priced at the raw close of that bar.
C12_SingleVShape ==
    /\ Len(reversals) <= 1
    /\ Len(df) = 2 * HalfBars =>
          /\ Len(reversals) = 1
          /\ reversals[1].kind = "trough"
          /\ reversals[1].date = HalfBars
          /\ \A i \in DOMAIN df : df[i].sma >= df[reversals[1].date].sma
          /\ reversals[1].price = df[reversals[1].date].raw

\* C12 witness: the whole series has been iterated, its minimum was held
\* for two bars, and the trough is in the list
C12_Witness ==
    /\ Len(df) = 2 * HalfBars
    /\ df[1].sma = VTop /\ df[2 * HalfBars].sma = VTop
    /\ df[HalfBars].sma = VBottom /\ df[HalfBars + 1].sma = VBottom
    /\ Len(reversals) = 1
    /\ trend = 1

\* ------------------------------------------------------------------------
\* The events of one symbol, from either detector
\* ------------------------------------------------------------------------
\* One symbol's events are computed by find_sma_reversals or by the scan of
\* generate_dashboard.  The index of a frame is a strictly increasing
\* sequence of days (interval '1d'), a date is the position of its bar.
EventsNext ==
    \/ RevNext /\ dash_close = <<>>
    \/ DashNext /\ df = <<>>

SpecEvents == RevInit /\ [][EventsNext]_vars

\* the dates of a list of events are strictly increasing
DatesIncrease(evs) ==
    \A i \in 1..(Len(evs) - 1) : evs[i].date < evs[i + 1].date

\* C13: the events reported for one symbol are ordered in time with no two
\* events on the same date, in the output of find_sma_reversals and in the
\* reversal list of generate_dashboard.
C13_EventDatesIncrease ==
    /\ DatesIncrease(reversals)
    /\ DatesIncrease(dash_reversals)

\* C13 witness: the scan of generate_dashboard listed three events, the
\* last two on neighbouring bars
C13_Witness ==
    /\ Len(dash_reversals) = 3
    /\ dash_reversals[3].date = dash_reversals[2].date + 1
    /\ dash_reversals[3].signal # dash_reversals[2].signal

\* ------------------------------------------------------------------------
\* determine_trend_state on its own
\* ------------------------------------------------------------------------
\* the values of the three columns determine_trend_state reads: a close
\* below, at and above the averages 11 and 23/2, relative performance of
\* either sign, zero and NaN
TrendCloses == {NaN, 10, 11, 12}
TrendSmas == {NaNRat, Rat(11, 1), Rat(23, 2)}
TrendRels == {NaNRat, Rat(0 - 5, 2), ZeroRat, Rat(7, 1)}

\* a row of a frame of calculate_indicators with the given three values
TrendRow(date, close, sma, rel) ==
    [date |-> date, Close |-> close, sma |-> sma,
     Return |-> NaNRat, Alpha |-> ZeroRat, Rel_Perf_3M |-> rel]

TrendInit == RevIdle /\ DashIdle /\ CacheIdle /\ PipeIdle

\* the frame gets one more row; a result computed before is dropped
TrendAddRow ==
    /\ Len(ind) < MaxTrendRows
    /\ \E close \in TrendCloses, sma \in TrendSmas, rel \in TrendRels :
          ind' = Append(ind, TrendRow(Len(ind) + 1, close, sma, rel))
    /\ sectors_data' = <<>>
    /\ UNCHANGED <<force_refresh, pc, cur, attempt, requests, last_resp, ret, spy_df, got,
                   cache, now>>
    /\ UNCHANGED notPipe

\* trend_text, trend_color = determine_trend_state(df)
TrendClassify ==
    /\ sectors_data = <<>>
    /\ sectors_data' = <<[trend_text  |-> determine_trend_state(ind).text,
                          trend_color |-> determine_trend_state(ind).color]>>
    /\ UNCHANGED <<force_refresh, pc, cur, attempt, requests, last_resp, ret, spy_df, got,
                   ind, cache, now>>
    /\ UNCHANGED notPipe

TrendNext == TrendAddRow \/ TrendClassify

SpecTrend == TrendInit /\ [][TrendNext]_vars

\* the result of the call on the frame ind is at hand
Classified == Len(sectors_data) = 1
\* the latest row of the frame
LatestRow == ind[Len(ind)]
\* price above / below the average of the latest row, both defined
PriceAbove == LatestRow.Close # NaN /\ ~IsNaN(LatestRow.sma)
                 /\ LatestRow.Close * LatestRow.sma.d > LatestRow.sma.n
PriceBelow == LatestRow.Close # NaN /\ ~IsNaN(LatestRow.sma)
                 /\ LatestRow.Close * LatestRow.sma.d < LatestRow.sma.n
\* the result is the given label with the given color
Result(text, color) ==
    sectors_data[1] = [trend_text |-> text, trend_color |-> color]
QuadrantLabels == {"LEADING", "WEAKENING", "IMPROVING", "LAGGING"}

\* C14: determine_trend_state is the quadrant table over the latest row:
\* above the average and positive relative performance gives LEADING,
\* above and negative WEAKENING, below and positive IMPROVING, below and
\* negative LAGGING, each with its fixed color, and the result is the one
\* of the latest row alone.
C14_QuadrantTable ==
    (Classified /\ Len(ind) > 0) =>
       /\ (PriceAbove /\ Positive(LatestRow.Rel_Perf_3M)) => Result("LEADING", "#26a69a")
       /\ (PriceAbove /\ Negative(LatestRow.Rel_Perf_3M)) => Result("WEAKENING", "#F7DC6F")
       /\ (PriceBelow /\ Positive(LatestRow.Rel_Perf_3M)) => Result("IMPROVING", "#45B7D1")
       /\ (PriceBelow /\ Negative(LatestRow.Rel_Perf_3M)) => Result("LAGGING", "#ef5350")
       /\ determine_trend_state(<<LatestRow>>).text = sectors_data[1].trend_text
       /\ determine_trend_state(<<LatestRow>>).color = sectors_data[1].trend_color

\* C14 witness: a frame of two rows whose first row lies in the LEADING
\* quadrant and whose latest row lies in the LAGGING one, classified
C14_Witness ==
    /\ Classified
    /\ Len(ind) = 2
    /\ ind[1].Close = 12 /\ Positive(ind[1].Rel_Perf_3M) /\ ~IsNaN(ind[1].sma)
    /\ PriceBelow /\ Negative(LatestRow.Rel_Perf_3M)
    /\ Result("LAGGING", "#ef5350")

\* C15 (as stated): every non-empty input gets one of the four quadrant
\* labels, the empty input gets Neutral.
C15_NonEmptyGetsQuadrant ==
    Classified =>
       IF Len(ind) > 0 THEN sectors_data[1].trend_text \in QuadrantLabels
       ELSE Result("Neutral", "#8a94a6")

\* the latest row decides both signals: all three values are defined, the
\* price differs from the average and the relative performance from zero
Decided == (PriceAbove \/ PriceBelow)
              /\ (Positive(LatestRow.Rel_Perf_3M) \/ Negative(LatestRow.Rel_Perf_3M))

\* C15 (amended): a non-empty input gets one of the four quadrant labels
\* exactly when its latest row decides both signals; a latest row with the
\* price equal to the average, a relative performance of zero or an
\* undefined value gets Neutral, as does the empty input.
C15_QuadrantIffDecided ==
    Classified =>
       IF Len(ind) > 0 /\ Decided THEN sectors_data[1].trend_text \in QuadrantLabels
       ELSE Result("Neutral", "#8a94a6")

\* C15 witness: a non-empty frame whose latest row has the price above the
\* average and a relative performance of exactly zero is Neutral
C15_Witness ==
    /\ Classified
    /\ Len(ind) > 0
    /\ PriceAbove
    /\ IsZero(LatestRow.Rel_Perf_3M)
    /\ Result("Neutral", "#8a94a6")

\* ------------------------------------------------------------------------
\* calculate_indicators on its own
\* ------------------------------------------------------------------------
\* close prices of the symbol and of the benchmark
IndCloses == {10, 11, 12}
SpyCloses == {10, 20}

\* the series of n bars on the days first, first + 1, ... with the closes
\* of the sequence cs
BarsOn(first, cs) ==
    [i \in 1..Len(cs) |-> [date |-> first + i - 1, close |-> cs[i], volume |-> 1]]

\* the sequences of length n over the set vals
SeqsOf(vals, n) == [1..n -> vals]

\* the symbol's series: up to MaxIndBars bars on the days 1, 2, ...
IndSeries == {BarsOn(1, cs) : cs \in UNION {SeqsOf(IndCloses, n) : n \in 0..MaxIndBars}}

\* the benchmark: none, one that covers the last days of the symbol only,
\* one that covers all of them, one on other days
SpySeries ==
    {EmptyDf}
    \cup {BarsOn(first, cs) : first \in {1, 3, MaxIndBars, MaxIndBars + 7},
                              cs \in SeqsOf(SpyCloses, 1) \cup SeqsOf(SpyCloses, 2)}
    \cup {BarsOn(1, cs) : cs \in SeqsOf(SpyCloses, MaxIndBars)}

\* calculate_indicators(df, spy_df) is about to be called
IndInit ==
    /\ RevIdle /\ DashIdle /\ CacheIdle
    /\ force_refresh = FALSE
    /\ pc = "indicators"
    /\ cur = 2
    /\ attempt = 0
    /\ requests = 0
    /\ last_resp = NoResponse
    /\ \E d \in IndSeries : ret = Returned(d)
    /\ spy_df \in SpySeries
    /\ sectors_data = <<>>
    /\ got = [tk \in Tickers |-> NotCalled]
    /\ ind = <<>>

\* df = calculate_indicators(df, spy_df)
IndCalculate ==
    /\ pc = "indicators"
    /\ ind' = calculate_indicators(ret.df, spy_df)
    /\ pc' = "calculated"
    /\ UNCHANGED <<force_refresh, cur, attempt, requests, last_resp, ret, spy_df,
                   sectors_data, got, cache, now>>
    /\ UNCHANGED notPipe

SpecInd == IndInit /\ [][IndCalculate]_vars

\* 0 <= x <= 100 for a value that is not NaN
InPercentRange(x) == x.d > 0 /\ x.n >= 0 /\ x.n <= 100 * x.d

\* the gain/loss ratio of row i is undefined: the window is not full, or
\* the average loss is zero
RatioUndefined(d, i) ==
    \/ i <= RsiPeriod
    \/ \A k \in RsiWindow(i) : d[k].close >= d[k - 1].close

\* C16: for a finite close series the RSI of calculate_indicators is
\* defined on every row and lies in [0, 100], and on the rows where the
\* gain/loss ratio is undefined (zero average loss, or less history than
\* the window) it is 50.
C16_RsiDefinedAndBounded ==
    pc = "calculated" =>
       \A i \in DOMAIN ind :
          /\ ~IsNaN(ind[i].RSI)
          /\ InPercentRange(ind[i].RSI)
          /\ RatioUndefined(ret.df, i) => ind[i].RSI = Rat(50, 1)

\* C16 witness: a series past its warm-up with an RSI of 0 on one row (no
\* gain in the window), of 50 by the fallback on another (no loss in the
\* window) and a value strictly between on a third
C16_Witness ==
    /\ pc = "calculated"
    /\ \E i \in DOMAIN ind : i > RsiPeriod /\ IsZero(ind[i].RSI)
    /\ \E i \in DOMAIN ind : i > RsiPeriod /\ RatioUndefined(ret.df, i)
    /\ \E i \in DOMAIN ind : ind[i].RSI.n > 50 * ind[i].RSI.d

\* ------------------------------------------------------------------------
\* Undefined values on the way to the classification
\* ------------------------------------------------------------------------
\* C17: for every series the pipeline passes on, whatever the overlap of
\* the benchmark's dates with the symbol's, the relative performance, the
\* alpha and the return of the latest row, which determine_trend_state and
\* the record read, are defined values, never NaN.
C17_NoNaNReachesClassification ==
    /\ Len(ind) > 0 =>
          /\ ~IsNaN(ind[Len(ind)].Rel_Perf_3M)
          /\ ~IsNaN(ind[Len(ind)].Alpha)
          /\ ~IsNaN(ind[Len(ind)].Return)
    /\ \A k \in DOMAIN sectors_data :
          /\ ~IsNaN(sectors_data[k].rel_perf)
          /\ ~IsNaN(sectors_data[k].alpha)
          /\ ~IsNaN(sectors_data[k].return)

\* ------------------------------------------------------------------------
\* save_cached_data step by step
\* ------------------------------------------------------------------------
\* series that pass every test of load_cached_data at Now0
StoreSeries ==
    {MkSeries(n, fa, la) : n \in EXPECTED_MIN_BARS_5Y..MaxSeriesLen,
                           fa \in {1717, 1718, 1719}, la \in {1, 3, 7}}

\* the file right after open(path, 'wb'): truncated to no bytes
Truncated == File("corrupt", EmptyDf, 0)
\* save_cached_data is between open() and the end of pickle.dump()
Writing(d) == [status |-> "writing", df |-> d]
\* pickle.dump() raised or the process was stopped before it finished
Failed(d) == [status |-> "failed", df |-> d]

\* an entry of an earlier run is in the cache
StoreInit ==
    /\ RevIdle /\ DashIdle /\ PipeIdle
    /\ \E d \in StoreSeries, age \in {1, 24, CACHE_HOURS} :
          cache = [tk \in Tickers |->
                      IF tk = CacheTicker THEN PickleDump(d, Now0 - age) ELSE NoFile]
    /\ now = Now0
    /\ ticks = 0
    /\ loaded = NotCalled
    /\ saved = NotCalled

\* save_cached_data(CacheTicker, df) with an empty df: return
StoreNothing ==
    /\ saved.status # "writing"
    /\ saved' = Returned(EmptyDf)
    /\ loaded' = NotCalled
    /\ UNCHANGED <<cache, now, ticks>>
    /\ UNCHANGED notCache

\* with open(path, 'wb') as f: the file is truncated
StoreOpen ==
    /\ saved.status # "writing"
    /\ \E d \in StoreSeries : saved' = Writing(d)
    /\ cache' = [cache EXCEPT ![CacheTicker] = Truncated]
    /\ loaded' = NotCalled
    /\ UNCHANGED <<now, ticks>>
    /\ UNCHANGED notCache

\* pickle.dump((df, datetime.now()), f) runs to its end
StoreDump ==
    /\ saved.status = "writing"
    /\ cache' = [cache EXCEPT ![CacheTicker] = save_cached_data(@, saved.df, now)]
    /\ saved' = Returned(saved.df)
    /\ loaded' = NotCalled
    /\ UNCHANGED <<now, ticks>>
    /\ UNCHANGED notCache

\* the write fails part-way or the process is stopped: the file keeps the
\* bytes written so far
StoreInterrupted ==
    /\ saved.status = "writing"
    /\ saved' = Failed(saved.df)
    /\ loaded' = NotCalled
    /\ UNCHANGED <<cache, now, ticks>>
    /\ UNCHANGED notCache

\* load_cached_data(CacheTicker), by this run or by another one
StoreLoad ==
    /\ loaded' = load_cached_data(cache[CacheTicker], now)
    /\ UNCHANGED <<cache, now, ticks, saved>>
    /\ UNCHANGED notCache

StoreNext == StoreNothing \/ StoreOpen \/ StoreDump \/ StoreInterrupted \/ StoreLoad

SpecStore == StoreInit /\ [][StoreNext]_vars

\* C18: save_cached_data is an atomic replace of the whole entry: at every
\* point during and after it, also when the write is interrupted, the file
\* holds a complete entry and a load returns the series of that entry,
\* never a truncated record and never nothing.
C18_StoreIsAtomic ==
    /\ cache[CacheTicker].kind = "pair"
    /\ cache[CacheTicker].df \in StoreSeries
    /\ loaded.status # "none" => loaded = Returned(cache[CacheTicker].df)

\* ------------------------------------------------------------------------
\* The cache during the fetch attempts of get_stock_data
\* ------------------------------------------------------------------------
\* C19 (as stated): no fetch attempt, successful or failed, creates or
\* modifies a cache entry.
C19_FetchLeavesCache == [][pc = "fetch" => cache' = cache]_vars

\* C19 (amended): a failed attempt, and an attempt that returns an empty
\* frame, leaves every cache entry as it is; an attempt that returns a
\* frame with rows replaces the entry of its own ticker by (frame, now) and
\* leaves every other entry as it is.
C19_OnlySuccessWritesOwnEntry ==
    [][pc = "fetch" =>
          IF Accepted(last_resp') /\ Len(ret'.df) > 0
          THEN cache' = [cache EXCEPT ![Order[cur]] = PickleDump(ret'.df, now)]
          ELSE cache' = cache]_vars

\* C19 witness: after a failed attempt an accepted one has returned a
\* frame with rows, and the ticker's entry is that frame with the time of
\* the fetch
C19_Witness ==
    /\ pc = "got"
    /\ requests >= 2
    /\ Len(ret.df) > 0
    /\ cache[Order[cur]] = PickleDump(ret.df, now)

\* ------------------------------------------------------------------------
\* The skip test of generate_dashboard
\* ------------------------------------------------------------------------
\* C20: a symbol whose load-or-fetch yields an empty series or a series
\* with fewer bars than the configured minimum bar count (MIN_BARS_REQUIRED)
\* is skipped entirely: no indicators are computed for it and no record is
\* emitted, and the run goes on with the next symbol.
C20_BelowMinimumIsSkipped ==
    /\ \A tk \in Sectors :
          (got[tk].status = "hit" /\ Len(got[tk].df) < MIN_BARS_REQUIRED)
             => RecordsOf(tk) = {}
    /\ pc # "crashed"

\* ------------------------------------------------------------------------
\* What the work on one symbol reads and writes
\* ------------------------------------------------------------------------
\* the records of ticker tk in the list recs
RecordsIn(recs, tk) == {recs[k] : k \in {j \in DOMAIN recs : recs[j].ticker = tk}}

\* C21: the work on one symbol shares no state with the work on another:
\* a step of the run changes the cache entry, the series and the records
\* of the symbol it works on only, a cached series it returns is the one
\* of that symbol's entry, and the record it appends is computed from that
\* symbol's series and the benchmark alone.
C21_SymbolsShareNoState ==
    [][/\ \A tk \in Tickers :
             tk # Order[cur] =>
                /\ cache'[tk] = cache[tk]
                /\ got'[tk] = got[tk]
                /\ RecordsIn(sectors_data', tk) = RecordsIn(sectors_data, tk)
       /\ (pc = "call" /\ pc' = "got") =>
             /\ cache[Order[cur]].kind = "pair"
             /\ ret' = Returned(cache[Order[cur]].df)
       /\ Len(sectors_data') > Len(sectors_data) =>
             sectors_data' =
                Append(sectors_data,
                       SectorRecord(Order[cur],
                                    calculate_indicators(got[Order[cur]].df, spy_df),
                                    got[Order[cur]].df))]_vars

\* C21 witness: the run is over; the benchmark fetch failed, the first
\* sector was fetched and stored, the second came from its cache entry,
\* and both have their records
C21_Witness ==
    /\ pc = "done"
    /\ Len(spy_df) = 0
    /\ cache["XLF"] = PickleDump(got["XLF"].df, now)
    /\ cache["XLV"].kind = "pair" /\ cache["XLV"].fetch_time < now
    /\ got["XLV"] = Returned(cache["XLV"].df)
    /\ RecordsIn(sectors_data, "XLF") # {}
    /\ RecordsIn(sectors_data, "XLV") # {}

\* ------------------------------------------------------------------------
\* The frame of a response with gaps
\* ------------------------------------------------------------------------
\* the arrays of a response whose bars may be null (NaN): closes and volumes
GapCloses == {NaN, 10, 11}
GapVolumes == {NaN, 1}

\* responses of up to MaxGapBars bars on consecutive days, without adjclose
GapCharts ==
    UNION {{Chart([i \in 1..n |-> Today0 - n + i], Arr(cs), Absent, Arr(vs)) :
               cs \in [1..n -> GapCloses], vs \in [1..n -> GapVolumes]} :
           n \in 1..MaxGapBars}

\* an attempt of get_stock_data has received its response
FrameInit ==
    /\ RevIdle /\ DashIdle /\ CacheIdle
    /\ force_refresh = TRUE
    /\ pc = "fetch"
    /\ cur = 2
    /\ attempt = 1
    /\ requests = 1
    /\ last_resp \in GapCharts
    /\ ret = NotCalled
    /\ spy_df = EmptyDf
    /\ sectors_data = <<>>
    /\ got = [tk \in Tickers |-> NotCalled]
    /\ ind = <<>>

\* the attempt builds the frame, saves it and returns it
FrameBuild ==
    /\ pc = "fetch"
    /\ ret' = AttemptBody(last_resp)
    /\ cache' = [cache EXCEPT ![Order[cur]] = save_cached_data(@, AttemptBody(last_resp).df, now)]
    /\ got' = [got EXCEPT ![Order[cur]] = AttemptBody(last_resp)]
    /\ pc' = "got"
    /\ UNCHANGED <<force_refresh, cur, attempt, requests, last_resp, spy_df, sectors_data,
                   ind, now>>
    /\ UNCHANGED notPipe

SpecFrame == FrameInit /\ [][FrameBuild]_vars

\* C22: every bar of a series returned by a successful fetch has a defined
\* close: gaps of the response are forward-filled, also a gap at the first
\* bars of the series.
C22_EveryBarHasClose ==
    (pc = "got" /\ ret.status = "hit") =>
        \A i \in DOMAIN ret.df : ret.df[i].close # NaN

\* ------------------------------------------------------------------------
\* find_sma_reversals: the branches of the loop, one iteration at a time
\* ------------------------------------------------------------------------
\* the loop has just iterated over a valid row
Iterated == Len(df') = Len(df) + 1 /\ ValidRow(df'[Len(df')])
\* the smoothed value and the date of the row just iterated
CurrSma == df'[Len(df')].sma
CurrDate == Len(df')
\* the anchor the iteration compares with: the first valid row's own value
\* when no row was iterated before
AnchorVal == IF last_date = 0 THEN CurrSma ELSE last_sma_val
AnchorDate == IF last_date = 0 THEN CurrDate ELSE last_date

\* C23 as stated: the initial trend is left exactly on a move of MORE than
\* the threshold away from the anchor.
C23_LeavesFlatAboveThreshold ==
    [][(Iterated /\ trend = 0) =>
          /\ trend' = 1 <=> CurrSma * 100 > AnchorVal * (100 + threshold)
          /\ trend' = -1 <=> CurrSma * 100 < AnchorVal * (100 - threshold)]_vars

\* C23: from trend 0 find_sma_reversals moves to the uptrend exactly when
\* the current smoothed value is at least anchor * (1 + threshold), to the
\* downtrend exactly when it is not and is at most anchor * (1 - threshold);
\* the move makes the current bar the tracked extreme, otherwise trend,
\* anchor value and anchor date stay; no event is emitted either way.
C23_LeavesFlatAtThreshold ==
    [][(Iterated /\ trend = 0) =>
          LET rise == CurrSma * 100 >= AnchorVal * (100 + threshold)
              fall == ~rise /\ CurrSma * 100 <= AnchorVal * (100 - threshold)
          IN /\ reversals' = reversals
             /\ trend' = 1 <=> rise
             /\ trend' = -1 <=> fall
             /\ trend' # 0 => last_sma_val' = CurrSma /\ last_date' = CurrDate
             /\ trend' = 0 => last_sma_val' = AnchorVal /\ last_date' = AnchorDate]_vars

\* C23 witness: the second valid row is above the anchor by exactly the
\* threshold of 1 percent and the uptrend is established, without an event
C23_Witness ==
    /\ threshold = 1
    /\ Len(valid_data) = 2
    /\ valid_data[2].sma * 100 = valid_data[1].sma * (100 + threshold)
    /\ trend = 1
    /\ last_sma_val = valid_data[2].sma
    /\ reversals = <<>>

\* the iteration left trend, tracked extreme and event list as they were
NothingChanged ==
    /\ trend' = trend
    /\ last_sma_val' = last_sma_val
    /\ last_date' = last_date
    /\ reversals' = reversals

\* the iteration made the current bar the tracked extreme of the same trend
\* and emitted nothing
ExtremeReplaced ==
    /\ trend' = trend
    /\ last_sma_val' = CurrSma
    /\ last_date' = CurrDate
    /\ reversals' = reversals

\* C26: in the uptrend a bar with a new high replaces the tracked extreme
\* (value and date) and emits nothing, and a bar that is no new high and is
\* not below the tracked extreme by more than the threshold changes nothing
\* (trend, tracked extreme, event list); symmetrically in the downtrend.  So
\* a pullback smaller than the threshold produces no event.
C26_ExtendOrIgnore ==
    [][/\ (Iterated /\ trend = 1) =>
             IF CurrSma > last_sma_val THEN ExtremeReplaced
             ELSE (CurrSma * 100 >= last_sma_val * (100 - threshold)) => NothingChanged
       /\ (Iterated /\ trend = -1) =>
             IF CurrSma < last_sma_val THEN ExtremeReplaced
             ELSE (CurrSma * 100 <= last_sma_val * (100 + threshold)) => NothingChanged]_vars

\* C26 witness: with a threshold of 2 percent the uptrend's high of bar 2 is
\* followed by a lower bar that is within the threshold; the high is still
\* the tracked extreme and nothing was emitted
C26_Witness ==
    /\ threshold = 2
    /\ trend = 1
    /\ Len(df) = 3
    /\ ValidRow(df[3])
    /\ last_date = 2
    /\ df[3].sma < last_sma_val
    /\ last_sma_val = df[2].sma
    /\ reversals = <<>>

\* ------------------------------------------------------------------------
\* run_analysis: the smoothed column, then find_sma_reversals
\* (MarketMonitorv8.py:180-182, 83-147)
\* ------------------------------------------------------------------------
\* raw prices whose means over SMA_PERIOD and SMA_PERIOD + 1 bars are whole
RollRaws == {96, 120, 132}

\* the raw column of a frame
RawOf(frame) == [i \in DOMAIN frame |-> frame[i].raw]

\* df[col].rolling(window=SMA_PERIOD).mean() at bar i: defined when the
\* window is full and holds no NaN (min_periods defaults to the window)
RollingMean(raws, i) ==
    IF i >= SMA_PERIOD /\ \A k \in (i - SMA_PERIOD + 1)..i : raws[k] # NaN
    THEN SumRange(raws, i - SMA_PERIOD + 1, i) \div SMA_PERIOD
    ELSE NaN

\* run_analysis smooths the column and find_sma_reversals reaches the next
\* row: a row that dropna removed is not iterated
RollRow ==
    /\ Len(df) < MaxRollBars
    /\ \E raw \in RollRaws \cup {NaN} :
          LET date  == Len(df) + 1
              raws  == Append(RawOf(df), raw)
              row   == [raw |-> raw, sma |-> RollingMean(raws, date)]
              frame == Append(df, row)
              st    == IF ValidRow(row)
                       THEN LoopBody(Anchored(RevState, date, row.sma), frame, date,
                                     row.sma, threshold)
                       ELSE RevState
          IN /\ df' = frame
             /\ trend' = st.trend
             /\ last_sma_val' = st.last_sma_val
             /\ last_date' = st.last_date
             /\ reversals' = st.reversals
             /\ leg_start' = st.leg_start
    /\ UNCHANGED <<threshold, data_list, last_extreme_val>>
    /\ UNCHANGED notRev

SpecRoll == RevInit /\ [][RollRow]_vars

\* the bars of a frame that have a smoothed value
SmoothedBars(frame) == {i \in DOMAIN frame : frame[i].sma # NaN}

\* C25: a series shorter than the smoothing window has no bar with a
\* smoothed value and find_sma_reversals returns the empty list for it; a
\* bar whose smoothed or raw value is undefined is not evaluated (trend,
\* tracked extreme and event list stay); and the anchor is taken at the
\* first bar that has a smoothed value.
C25_UndefinedBarsNotEvaluated ==
    [][/\ Len(df') < SMA_PERIOD => SmoothedBars(df') = {}
       /\ SmoothedBars(df') = {} =>
             trend' = 0 /\ last_date' = 0 /\ reversals' = <<>>
       /\ (df'[Len(df')].sma = NaN \/ df'[Len(df')].raw = NaN) =>
             /\ trend' = trend /\ last_sma_val' = last_sma_val
             /\ last_date' = last_date /\ reversals' = reversals
       /\ (SmoothedBars(df) = {} /\ SmoothedBars(df') # {}) =>
             /\ last_date' = Len(df')
             /\ last_sma_val' = df'[Len(df')].sma
             /\ reversals' = <<>>
       /\ (trend' = 0 /\ SmoothedBars(df') # {}) =>
             /\ last_date' \in SmoothedBars(df')
             /\ \A i \in SmoothedBars(df') : last_date' <= i]_vars

\* C25 witness: the first raw value is missing, so the first smoothed value
\* is the one of bar SMA_PERIOD + 1; it is the anchor, and the next bar was
\* compared with it
C25_Witness ==
    /\ Len(df) = SMA_PERIOD + 2
    /\ df[1].raw = NaN
    /\ SmoothedBars(df) = {SMA_PERIOD + 1, SMA_PERIOD + 2}
    /\ trend = 0
    /\ last_date = SMA_PERIOD + 1
    /\ last_sma_val = df[SMA_PERIOD + 1].sma
    /\ reversals = <<>>

\* ------------------------------------------------------------------------
\* generate_dashboard: what an event of the scan stands for
\* ------------------------------------------------------------------------
\* the bars of the trailing lookback of bar i, bar i included
LookbackOf(i) == Max2(1, i - LookbackBars + 1)..i

\* C24: an event of generate_dashboard sits on a bar whose SMA direction
\* differs from the previous bar's; a Bull event's close is at least
\* REVERSAL_PRICE_THRESHOLD percent above the lowest close of the trailing
\* lookback and its move is >= the threshold, a Bear event's close is at
\* least that much below the highest close and its move is <= -threshold;
\* the price is the close of the event's own bar (as round(., 2) gives it).
C24_EventsPassDirectionAndGate ==
    \A k \in DOMAIN dash_reversals :
        LET e == dash_reversals[k]
            i == e.date
            c == dash_close
        IN /\ i \in 2..Len(c)
           /\ SMA_Direction(c, i) # SMA_Direction(c, i - 1)
           /\ e.signal \in {"Bull", "Bear"}
           /\ e.signal = "Bull" =>
                 /\ SMA_Direction(c, i) = 1
                 /\ \E m \in LookbackOf(i) :
                       /\ \A j \in LookbackOf(i) : c[m] <= c[j]
                       /\ (c[i] - c[m]) * 100 >= REVERSAL_PRICE_THRESHOLD * c[m]
                 /\ e.move >= REVERSAL_PRICE_THRESHOLD * 100
           /\ e.signal = "Bear" =>
                 /\ SMA_Direction(c, i) = -1
                 /\ \E m \in LookbackOf(i) :
                       /\ \A j \in LookbackOf(i) : c[m] >= c[j]
                       /\ (c[m] - c[i]) * 100 >= REVERSAL_PRICE_THRESHOLD * c[m]
                 /\ e.move <= 0 - REVERSAL_PRICE_THRESHOLD * 100
           /\ e.price * 10 - c[i] \in -5..5

\* C24 witness: a Bull event whose move is exactly the threshold, a Bull
\* event on a bar whose close has a third decimal, and a Bear event
C24_Witness ==
    /\ \E k \in DOMAIN dash_reversals :
          /\ dash_reversals[k].signal = "Bull"
          /\ dash_reversals[k].move = REVERSAL_PRICE_THRESHOLD * 100
    /\ \E k \in DOMAIN dash_reversals :
          /\ dash_reversals[k].signal = "Bull"
          /\ dash_reversals[k].price * 10 # dash_close[dash_reversals[k].date]
    /\ \E k \in DOMAIN dash_reversals : dash_reversals[k].signal = "Bear"

\* ------------------------------------------------------------------------
\* get_stock_data: the cache before and after the retry loop
\* ------------------------------------------------------------------------
\* the entry of a file passes the four tests of load_cached_data at time t
ValidEntry(f, t) ==
    /\ f.kind = "pair"
    /\ t - f.fetch_time <= CACHE_HOURS
    /\ Len(f.df) >= MIN_BARS_REQUIRED
    /\ Len(f.df) >= EXPECTED_MIN_BARS_5Y /\ Today(t) - FirstDate(f.df) >= 1717
    /\ Today(t) - LastDate(f.df) <= StaleDays

\* C27: with force_refresh false and a valid entry get_stock_data returns
\* the cached series, makes no request and leaves the entry (its fetch time
\* too) as it is; with force_refresh true it does not return the cached
\* series but enters the retry loop, also over a valid entry, and returns
\* only after at least one request.
C27_HitOrForcedFetch ==
    [][/\ (pc = "call" /\ ~force_refresh /\ ValidEntry(cache[Order[cur]], now)) =>
             /\ pc' = "got"
             /\ ret' = Returned(cache[Order[cur]].df)
             /\ requests' = 0
             /\ cache' = cache
       /\ (pc = "call" /\ force_refresh) =>
             /\ pc' = "fetch"
             /\ attempt' = 1
             /\ ret' = NotCalled
             /\ cache' = cache
       /\ (force_refresh /\ pc' = "got") => requests' >= 1]_vars

\* C27 witness: without force_refresh the call over a valid entry has
\* returned the entry's series with no request; the entry still has the
\* fetch time it had
C27_Witness ==
    /\ pc = "got"
    /\ ~force_refresh
    /\ requests = 0
    /\ ValidEntry(cache[Order[cur]], now)
    /\ cache[Order[cur]].fetch_time = Now0 - 10
    /\ ret = Returned(cache[Order[cur]].df)

\* C28: a failed attempt leaves every cache entry as it is, and the call
\* whose attempts all failed returns the empty series (an expired entry is
\* neither deleted, refreshed nor returned); an accepted attempt changes no
\* entry but the requested ticker's, and none when its series is empty.
C28_FailureKeepsCache ==
    [][pc = "fetch" =>
          /\ ~Accepted(last_resp') =>
                /\ cache' = cache
                /\ pc' = "got" => ret' = Returned(EmptyDf) /\ requests' = MaxAttempts
          /\ Accepted(last_resp') =>
                /\ \A tk \in Tickers : tk # Order[cur] => cache'[tk] = cache[tk]
                /\ Len(ret'.df) = 0 => cache' = cache
                /\ Len(ret'.df) > 0 => cache'[Order[cur]].df = ret'.df]_vars

\* C28 witness: every attempt failed over an expired entry with rows; the
\* call returned the empty series and the entry is as it was
C28_Witness ==
    /\ pc = "got"
    /\ requests = MaxAttempts
    /\ ~Accepted(last_resp)
    /\ ret = Returned(EmptyDf)
    /\ cache[Order[cur]].kind = "pair"
    /\ cache[Order[cur]].fetch_time = Now0 - CACHE_HOURS - 1
    /\ Len(cache[Order[cur]].df) > 0

\* ------------------------------------------------------------------------
\* generate_dashboard: the trend state under a degraded benchmark
\* ------------------------------------------------------------------------
\* the record the loop has just appended
NewRecord == sectors_data'[Len(sectors_data')]

\* C29: when the benchmark is empty or has no value on any date of the
\* symbol, the record of every processed symbol is Neutral, whatever its
\* price is relative to its average; a record has a quadrant label only
\* when on the latest row the price differs from the average and the
\* relative performance is not zero.
C29_DegradedBenchmarkIsNeutral ==
    [][Len(sectors_data') > Len(sectors_data) =>
          LET last == ind'[Len(ind')]
          IN /\ (Len(spy_df) = 0 \/ NothingAligns(ret.df)) =>
                   /\ \A i \in DOMAIN ind' : IsZero(ind'[i].Rel_Perf_3M)
                   /\ NewRecord.trend_text = "Neutral"
                   /\ NewRecord.trend_color = "#8a94a6"
             /\ NewRecord.trend_text \in QuadrantLabels =>
                   /\ last.Close # NaN /\ ~IsNaN(last.sma)
                   /\ last.Close * last.sma.d # last.sma.n
                   /\ ~IsNaN(last.Rel_Perf_3M) /\ ~IsZero(last.Rel_Perf_3M)]_vars

\* C29 witness: the benchmark is empty, the sector just processed closed
\* above its average, and its record is Neutral
C29_Witness ==
    /\ Len(spy_df) = 0
    /\ Len(ind) > 0
    /\ pc # "done"
    /\ Len(sectors_data) > 0
    /\ ind[Len(ind)].Close * ind[Len(ind)].sma.d > ind[Len(ind)].sma.n
    /\ sectors_data[Len(sectors_data)].price = ind[Len(ind)].Close
    /\ sectors_data[Len(sectors_data)].trend_text = "Neutral"

\* ------------------------------------------------------------------------
\* find_significant_reversals (MarketMonitorv7.py:72-95,
\* MarketMonitorv4.py:38-61)
\* ------------------------------------------------------------------------
\* the loop state of find_significant_reversals as one record
SigState == [trend |-> trend, last_extreme_val |-> last_extreme_val,
             reversals |-> reversals]

\* pct_change >= threshold, pct_change = (price - last) / last, for last > 0
PctAtLeast(price, last, thr) == (price - last) * 100 >= thr * last
\* pct_change <= -threshold
PctAtMost(price, last, thr) == (price - last) * 100 <= (0 - thr) * last

\* a faulty loop body: the tests of trend are missing from the two
\* emitting branches
SigLoopBodyNoTrendTest(st, i, price, thr) ==
    IF PctAtLeast(price, st.last_extreme_val, thr)
    THEN [trend |-> 1, last_extreme_val |-> price,
          reversals |-> Append(st.reversals, [index |-> i, kind |-> "trough"])]
    ELSE IF PctAtMost(price, st.last_extreme_val, thr)
    THEN [trend |-> -1, last_extreme_val |-> price,
          reversals |-> Append(st.reversals, [index |-> i, kind |-> "peak"])]
    ELSE IF \/ st.trend = 1 /\ price > st.last_extreme_val
            \/ st.trend = -1 /\ price < st.last_extreme_val
    THEN [st EXCEPT !.last_extreme_val = price]
    ELSE st

\* one iteration of  for i in range(1, len(data_list))
SigLoopBody(st, i, price, thr) ==
    IF st.trend <= 0 /\ PctAtLeast(price, st.last_extreme_val, thr)
    THEN [trend |-> 1, last_extreme_val |-> price,
          reversals |-> Append(st.reversals, [index |-> i, kind |-> "trough"])]
    ELSE IF st.trend >= 0 /\ PctAtMost(price, st.last_extreme_val, thr)
    THEN [trend |-> -1, last_extreme_val |-> price,
          reversals |-> Append(st.reversals, [index |-> i, kind |-> "peak"])]
    ELSE IF \/ st.trend = 1 /\ price > st.last_extreme_val
            \/ st.trend = -1 /\ price < st.last_extreme_val
    THEN [st EXCEPT !.last_extreme_val = price]
    ELSE st

\* reversals = []; the list is revealed a value at a time
SigInit ==
    /\ DashIdle /\ CacheIdle /\ PipeIdle
    /\ df = <<>>
    /\ last_sma_val = NaN
    /\ last_date = 0
    /\ leg_start = 0
    /\ threshold \in ThresholdPcts
    /\ trend = 0
    /\ reversals = <<>>
    /\ data_list = <<>>
    /\ last_extreme_val = NaN

\* last_extreme_val = data_list[0]; trend = 0
SigFirst ==
    /\ data_list = <<>>
    /\ \E price \in SmaVals :
          /\ data_list' = <<price>>
          /\ last_extreme_val' = price
    /\ UNCHANGED <<df, threshold, trend, last_sma_val, last_date, reversals, leg_start>>
    /\ UNCHANGED notRev

\* the loop reaches data_list[i], i = 1, 2, ...
SigStep ==
    /\ data_list # <<>>
    /\ Len(data_list) < MaxListLen
    /\ \E price \in SmaVals :
          LET st == SigLoopBody(SigState, Len(data_list), price, threshold)
          IN /\ data_list' = Append(data_list, price)
             /\ trend' = st.trend
             /\ last_extreme_val' = st.last_extreme_val
             /\ reversals' = st.reversals
    /\ UNCHANGED <<df, threshold, last_sma_val, last_date, leg_start>>
    /\ UNCHANGED notRev

SigNext == SigFirst \/ SigStep

SpecSig == SigInit /\ [][SigNext]_vars

\* data_list[i] with the index of the source, which starts at 0
At(i) == data_list[i + 1]

====
